---------------------------- MODULE Spec2Model ----------------------------
(***************************************************************************)
(* A model of the blockifier core: entry-point resolution on contract      *)
(* classes (execution/contract_class.rs), the fee accounting pipeline      *)
(* (fee/fee_utils.rs), the traversal of a CallInfo tree and the recursive  *)
(* execution of calls (execution/entry_point_test.rs), and the accessors   *)
(* of TransactionExecutionInfo (transaction/objects.rs).                   *)
(*                                                                         *)
(* Several specifications share the module: SpecEntry, SpecFee, SpecIter,  *)
(* SpecTx, SpecStor, SpecExec, SpecClass, SpecWord and others.  Each drives *)
(* its own group of variables and leaves the others at their idle values.  *)
(***************************************************************************)
EXTENDS Integers, Sequences, FiniteSets, TLC

VARIABLES
    \* --- entry-point resolution ---
    class,                  \* ContractClassV1Inner.entry_points_by_type
    call,                   \* CallEntryPoint: entry_point_type, entry_point_selector
    ep_result,              \* outcome of get_entry_point, or Pending
    \* --- fee accounting ---
    resources,              \* ResourcesMapping handed to calculate_tx_fee (IndexMap order)
    vm_resource_fee_cost,   \* BlockContext.vm_resource_fee_cost (FixedU128 inner values)
    fee_cost_order,         \* the order in which this HashMap is iterated
    gas_price,              \* BlockContext.gas_price
    pc,                     \* position inside calculate_tx_fee
    l1_gas_usage,           \* local of calculate_tx_fee
    vm_resources,           \* local of calculate_tx_fee
    l1_gas_by_vm_usage,     \* local of calculate_tx_fee (a TransactionExecutionResult)
    fee,                    \* what calculate_tx_fee returned
    trail,                  \* the positions calculate_tx_fee went through
    \* --- CallInfo traversal ---
    inner_calls,            \* node -> its inner_calls sequence
    calldata,               \* node -> its call.calldata marker
    call_infos,             \* CallInfoIter.call_infos (the stack)
    yielded,                \* the nodes next() has returned so far
    ended,                  \* next() has returned None
    \* --- TransactionExecutionInfo ---
    tx_info,                \* a TransactionExecutionInfo
    executed_class_hashes,  \* what get_executed_class_hashes returned
    reverted,               \* what is_reverted returned
    \* --- storage access records of one call ---
    storage_at_entry,       \* the contract's storage when the call started
    storage,                \* the contract's storage now
    syscalls,               \* the storage syscalls the program has issued
    storage_read_values,    \* CallInfo.storage_read_values
    accessed_storage_keys,  \* CallInfo.accessed_storage_keys
    \* --- execution of one call tree ---
    call_stack,             \* the suspended callers and, last, the running invocation
    next_id,                \* identifier of the next invocation issued
    completed,              \* the invocations that have completed, in completion order
    error_stack,            \* (contract address, trace fragment) of each failed contract
    raised,                 \* the error on its way up, if any
    origin,                 \* where that error arose: the chain of contracts
    exec_result,            \* what the outermost execute returned
    \* --- contract classes of both variants ---
    contract_class,         \* a ContractClass: variant, entry points, program lengths
    ctor_result,            \* what constructor_selector returned
    estimate,               \* what estimate_casm_hash_computation_resources returned
    \* --- the V0 estimate on machine-word counts ---
    lower_class,            \* a V0 class
    higher_class,           \* a V0 class with more of one count
    lower_estimate,         \* the estimate for lower_class
    higher_estimate,        \* the estimate for higher_class
    \* --- the compact binary form of a ResourcesMapping ---
    mapping,                \* a ResourcesMapping (IndexMap order)
    mapping_encoded,        \* what encode returned
    mapping_decoded,        \* what decode returned on those bytes
    \* --- the cache of the build without std ---
    sized_cache,            \* a SizedCache: the wrapped HashMap
    cache_history,          \* the operations called on it, with what they returned
    \* --- a V1 class built from a compiled class ---
    casm_class,             \* a CasmContractClass
    built,                  \* what the conversion to ContractClassV1 returned
    built_entry_point,      \* a call of get_entry_point on the built class, its result
    built_selector,         \* what constructor_selector returned on the built class
    \* --- the encodings of a contract class ---
    codec_class,            \* a contract class, as the value its equality compares
    bucket_order,           \* the order in which its entry_points_by_type is iterated
    hint_order,             \* the order in which its hints map is iterated
    class_encoded,          \* what encode returned
    class_decoded,          \* what decode returned on those bytes
    class_json,             \* what serde_json::to_vec returned
    class_from_json         \* what serde_json::from_slice returned on that

entryVars == <<class, call, ep_result>>
feeVars   == <<resources, vm_resource_fee_cost, fee_cost_order, gas_price, pc,
               l1_gas_usage, vm_resources, l1_gas_by_vm_usage, fee, trail>>
iterVars  == <<inner_calls, calldata, call_infos, yielded, ended>>
txVars    == <<tx_info, executed_class_hashes, reverted>>
storVars  == <<storage_at_entry, storage, syscalls, storage_read_values,
               accessed_storage_keys>>
execVars  == <<call_stack, next_id, completed, error_stack, raised, origin,
               exec_result>>
classVars == <<contract_class, ctor_result, estimate>>
wordVars  == <<lower_class, higher_class, lower_estimate, higher_estimate>>
mapVars   == <<mapping, mapping_encoded, mapping_decoded>>
cacheVars == <<sized_cache, cache_history>>
casmVars  == <<casm_class, built, built_entry_point, built_selector>>
codecVars == <<codec_class, bucket_order, hint_order, class_encoded, class_decoded,
               class_json, class_from_json>>
lateVars  == <<mapVars, cacheVars, casmVars, codecVars>>
extVars   == <<txVars, storVars, execVars, classVars, wordVars, lateVars>>
coreVars  == <<entryVars, feeVars, iterVars>>
exceptTx   == <<coreVars, storVars, execVars, classVars, wordVars, lateVars>>
exceptStor == <<coreVars, txVars, execVars, classVars, wordVars, lateVars>>
exceptExec == <<coreVars, txVars, storVars, classVars, wordVars, lateVars>>
exceptClass == <<coreVars, txVars, storVars, execVars, wordVars, lateVars>>
exceptWord == <<coreVars, txVars, storVars, execVars, classVars, lateVars>>
earlyVars == <<coreVars, txVars, storVars, execVars, classVars, wordVars>>
exceptMap == <<earlyVars, cacheVars, casmVars, codecVars>>
exceptCache == <<earlyVars, mapVars, casmVars, codecVars>>
exceptCasm == <<earlyVars, mapVars, cacheVars, codecVars>>
exceptCodec == <<earlyVars, mapVars, cacheVars, casmVars>>
vars      == <<entryVars, feeVars, iterVars, extVars>>

(***************************************************************************)
(* Small helpers on sequences.                                             *)
(***************************************************************************)
Range(s) == {s[i] : i \in DOMAIN s}

SeqsUpTo(S, n) == UNION {[1..k -> S] : k \in 0..n}

RECURSIVE Reverse(_)
Reverse(s) == IF s = <<>> THEN <<>> ELSE Append(Reverse(Tail(s)), Head(s))

(***************************************************************************)
(* Entry-point resolution: ContractClassV1::get_entry_point.               *)
(***************************************************************************)

\* Bound: the longest entry-point bucket the model builds.
MaxBucketLen == 2

EntryPointType == {"Constructor", "External", "L1Handler"}

CONSTRUCTOR_ENTRY_POINT_NAME == "constructor"

\* selector_from_name hashes a function name to a felt.  The model keeps a
\* table of the names it uses; different names give different selectors.
selector_from_name(name) ==
    CASE name = "constructor" -> 7
      [] name = "without_arg" -> 3
      [] OTHER                -> 5

\* The selectors calls are made with: the constructor's, one that entries
\* carry, and one (felt 2, as in test_entry_point_not_found_in_contract)
\* that no entry carries.
CallSelectors == {selector_from_name(CONSTRUCTOR_ENTRY_POINT_NAME),
                  selector_from_name("without_arg"), 2}

\* EntryPointV1 values the buckets are built from.
EntryPointPool ==
    { [selector |-> selector_from_name(CONSTRUCTOR_ENTRY_POINT_NAME), offset |-> 0,
       builtins |-> <<>>],
      [selector |-> selector_from_name("without_arg"), offset |-> 1,
       builtins |-> <<"range_check_builtin">>],
      [selector |-> selector_from_name("without_arg"), offset |-> 2,
       builtins |-> <<>>] }

\* HashMap<EntryPointType, Vec<EntryPointV1>>: any subset of the types may be
\* a key (ContractClassV1::default() has none, a decoded class has those its
\* encoding lists).
EntryPointsByType ==
    UNION { [ts -> SeqsUpTo(EntryPointPool, MaxBucketLen)] : ts \in SUBSET EntryPointType }

CallEntryPoint == [entry_point_type : EntryPointType, entry_point_selector : CallSelectors]

Pending == [tag |-> "Pending"]

\* `map[&key]` on a HashMap panics when the key is absent.
IndexPanic == [tag |-> "Panic", what |-> "HashMap index: key not found"]

\* A variant of get_entry_point that indexes the bucket before it checks the
\* constructor's name.
get_entry_point_lookup_first(entry_points_by_type, c) ==
    IF c.entry_point_type \notin DOMAIN entry_points_by_type
    THEN IndexPanic
    ELSE IF /\ c.entry_point_type = "Constructor"
            /\ c.entry_point_selector # selector_from_name(CONSTRUCTOR_ENTRY_POINT_NAME)
    THEN [tag |-> "Err", error |-> "InvalidConstructorEntryPointName"]
    ELSE
      LET entry_points_of_same_type == entry_points_by_type[c.entry_point_type]
          filtered_entry_points ==
              SelectSeq(entry_points_of_same_type,
                        LAMBDA ep : ep.selector = c.entry_point_selector)
      IN CASE Len(filtered_entry_points) = 0 ->
                [tag |-> "Err", error |-> "EntryPointNotFound",
                 selector |-> c.entry_point_selector]
           [] Len(filtered_entry_points) = 1 ->
                [tag |-> "Ok", entry_point |-> filtered_entry_points[1]]
           [] OTHER ->
                [tag |-> "Err", error |-> "DuplicatedEntryPointSelector",
                 selector |-> c.entry_point_selector, typ |-> c.entry_point_type]

\* ContractClassV1::get_entry_point.
get_entry_point(entry_points_by_type, c) ==
    IF /\ c.entry_point_type = "Constructor"
       /\ c.entry_point_selector # selector_from_name(CONSTRUCTOR_ENTRY_POINT_NAME)
    THEN [tag |-> "Err", error |-> "InvalidConstructorEntryPointName"]
    ELSE IF c.entry_point_type \notin DOMAIN entry_points_by_type
    THEN IndexPanic
    ELSE
      LET entry_points_of_same_type == entry_points_by_type[c.entry_point_type]
          filtered_entry_points ==
              SelectSeq(entry_points_of_same_type,
                        LAMBDA ep : ep.selector = c.entry_point_selector)
      IN CASE Len(filtered_entry_points) = 0 ->
                [tag |-> "Err", error |-> "EntryPointNotFound",
                 selector |-> c.entry_point_selector]
           [] Len(filtered_entry_points) = 1 ->
                [tag |-> "Ok", entry_point |-> filtered_entry_points[1]]
           [] OTHER ->
                [tag |-> "Err", error |-> "DuplicatedEntryPointSelector",
                 selector |-> c.entry_point_selector, typ |-> c.entry_point_type]

EntryIdle ==
    /\ class = [t \in {} |-> <<>>]
    /\ call = [entry_point_type |-> "External", entry_point_selector |-> 2]
    /\ ep_result = [tag |-> "Idle"]

EntryInit ==
    /\ class \in EntryPointsByType
    /\ call \in CallEntryPoint
    /\ ep_result = Pending

\* One call of get_entry_point on the class.
GetEntryPoint ==
    /\ ep_result = Pending
    /\ ep_result' = get_entry_point(class, call)
    /\ UNCHANGED <<class, call, feeVars, iterVars, extVars>>


(***************************************************************************)
(* Fee accounting: fee/fee_utils.rs.                                       *)
(*                                                                         *)
(* The integer widths are scaled down: u64 has U64Bits bits, u128 has      *)
(* U128Bits bits and FixedU128 keeps DIV inner units per integer unit      *)
(* (2^64, 2^128 and 10^18 in the code).  As in the code, every u64 times   *)
(* DIV fits the inner u128, so a usage count always converts.              *)
(***************************************************************************)

\* Bounds: the scaled widths and the scaled accuracy of FixedU128.
U64Bits == 13

U128Bits == 20

DIV == 100

U64_MAX == 2^U64Bits - 1

U128_MAX == 2^U128Bits - 1

\* usize on the 64-bit targets: as wide as u64.
UsizeBits == U64Bits

GAS_USAGE == "l1_gas_usage"

N_STEPS_RESOURCE == "n_steps"

PEDERSEN == "pedersen_builtin"

ResourceNames == {GAS_USAGE, N_STEPS_RESOURCE, PEDERSEN}

\* The usage counts the model draws for each resource.
UsageValues(key) ==
    CASE key = GAS_USAGE        -> {0, 100, U64_MAX}
      [] key = N_STEPS_RESOURCE -> {0, 3, 5000, U64_MAX}
      [] OTHER                  -> {0, 3, 200}

\* Prices (inner values of FixedU128): 0.01, 0.02 and 2.0 at DIV = 100.
PriceValues == {1, 2, 200}

GasPrices == {0, 1, 3, U128_MAX}

Min(a, b) == IF a <= b THEN a ELSE b

Max(a, b) == IF a >= b THEN a ELSE b

\* ---- IndexMap<String, u64>: a sequence of entries with distinct keys ----

Keys(m) == {m[i].k : i \in DOMAIN m}

IndexOf(m, key) == CHOOSE i \in DOMAIN m : m[i].k = key

\* IndexMap::get(key).cloned().unwrap_or_default()
GetOrDefault(m, key) == IF key \in Keys(m) THEN m[IndexOf(m, key)].v ELSE 0

\* IndexMap::remove is swap_remove: the last entry takes the removed slot.
SwapRemove(m, key) ==
    LET i == IndexOf(m, key)
        n == Len(m)
    IN [j \in 1..(n - 1) |-> IF j = i THEN m[n] ELSE m[j]]

\* IndexMap::insert: an existing key keeps its slot, a new key goes last.
Insert(m, key, value) ==
    IF key \in Keys(m)
    THEN [m EXCEPT ![IndexOf(m, key)] = [k |-> key, v |-> value]]
    ELSE Append(m, [k |-> key, v |-> value])

\* PartialEq of IndexMap: the same entries, whatever their order.
MapEq(a, b) ==
    /\ Len(a) = Len(b)
    /\ \A i \in DOMAIN a :
          /\ a[i].k \in Keys(b)
          /\ b[IndexOf(b, a[i].k)].v = a[i].v

\* All ResourcesMapping values: every ordering of every set of names.
ResourcesMappings ==
    { m \in SeqsUpTo(UNION {[k : {key}, v : UsageValues(key)] : key \in ResourceNames},
                     Cardinality(ResourceNames)) :
        /\ \A i, j \in DOMAIN m : i # j => m[i].k # m[j].k }

\* ---- results ----

NoneYet == [tag |-> "None", val |-> 0, error |-> ""]

Ok(x) == [tag |-> "Ok", val |-> x, error |-> ""]

Err(e) == [tag |-> "Err", val |-> 0, error |-> e]

Panic(msg) == [tag |-> "Panic", val |-> 0, error |-> msg]

\* ---- FixedU128 (sp_arithmetic), on inner values ----

\* FixedU128::checked_from_integer: int * DIV, None (-1) when it overflows.
checked_from_integer(int) == IF int > U128_MAX \div DIV THEN -1 ELSE int * DIV

\* multiply_by_rational(a, b, c) = floor(a * b / c), None (-1) when the
\* result overflows u128.  Computed as q*b + (r*b)/c with a = q*c + r.
multiply_by_rational(a, b, c) ==
    LET q == a \div c
        r == a % c
    IN IF b # 0 /\ q > U128_MAX \div b
       THEN -1
       ELSE LET x == q * b + (r * b) \div c
            IN IF x > U128_MAX THEN -1 ELSE x

\* FixedU128::mul: checked_mul, panicking when it overflows.
FixedMul(a, b) ==
    LET x == multiply_by_rational(a, b, DIV)
    IN IF x = -1 THEN Panic("attempt to multiply with overflow") ELSE Ok(x)

\* FixedU128 + FixedU128 is the u128 `+` of the inner values: on overflow it
\* panics in a build with overflow checks and wraps in a build without.
FixedAdd(a, b) ==
    IF a + b <= U128_MAX
    THEN {Ok(a + b)}
    ELSE {Panic("attempt to add with overflow"), Ok((a + b) % (U128_MAX + 1))}

trunc(x) == (x \div DIV) * DIV

frac(x) == x - trunc(x)

\* FixedU128::ceil: self when integral, else saturating_add(one).trunc().
ceil(x) == IF frac(x) = 0 THEN x ELSE trunc(Min(x + DIV, U128_MAX))

\* FixedU128::saturating_mul_int: checked_mul_int, else the bound u128::MAX.
saturating_mul_int(x, n) ==
    LET y == multiply_by_rational(x, n, DIV)
    IN IF y = -1 THEN U128_MAX ELSE y

\* ---- fee_utils.rs ----

\* An extraction that takes a missing key as usage 0.
extract_or_default(res) ==
    IF GAS_USAGE \notin Keys(res)
    THEN Ok([l1_gas_usage |-> 0, vm_resource_usage |-> res])
    ELSE Ok([l1_gas_usage |-> GetOrDefault(res, GAS_USAGE) % 2^UsizeBits,
             vm_resource_usage |-> SwapRemove(res, GAS_USAGE)])

\* An extraction that leaves the key in the remaining mapping.
extract_keeping_key(res) ==
    IF GAS_USAGE \notin Keys(res)
    THEN Panic("ResourcesMapping does not have the key l1_gas_usage.")
    ELSE Ok([l1_gas_usage |-> GetOrDefault(res, GAS_USAGE) % 2^UsizeBits,
             vm_resource_usage |-> res])

\* extract_l1_gas_and_vm_usage: works on a clone of the mapping.
extract_l1_gas_and_vm_usage(res) ==
    IF GAS_USAGE \notin Keys(res)
    THEN Panic("ResourcesMapping does not have the key l1_gas_usage.")
    ELSE Ok([l1_gas_usage |-> GetOrDefault(res, GAS_USAGE) % 2^UsizeBits,
             vm_resource_usage |-> SwapRemove(res, GAS_USAGE)])

\* One item of the `.map(...)` over the fee costs: the usage of `key`,
\* converted and multiplied by its price.
WeightedCost(costs, usage, key) ==
    LET key_resource_usage == checked_from_integer(GetOrDefault(usage, key))
    IN IF key_resource_usage = -1
       THEN Err("FixedPointConversion")
       ELSE FixedMul(key_resource_usage, costs[key])

\* try_fold(zero, |accum, res| res.map(|v| v.max(accum))) over the items in
\* iteration order: the first Err ends the fold, a panic ends everything.
RECURSIVE TryFoldMax(_, _, _, _)
TryFoldMax(costs, usage, order, accum) ==
    IF order = <<>>
    THEN Ok(accum)
    ELSE LET res == WeightedCost(costs, usage, Head(order))
         IN IF res.tag # "Ok"
            THEN res
            ELSE TryFoldMax(costs, usage, Tail(order), Max(res.val, accum))

\* A variant without the subset check: an unpriced resource costs nothing.
calculate_l1_gas_unchecked(costs, order, usage) == TryFoldMax(costs, usage, order, 0)

\* calculate_l1_gas_by_vm_usage(block_context, vm_resource_usage).
calculate_l1_gas_by_vm_usage(costs, order, usage) ==
    IF ~(Keys(usage) \subseteq DOMAIN costs)
    THEN Err("CairoResourcesNotContainedInFeeCosts")
    ELSE TryFoldMax(costs, usage, order, 0)


\* ---- calculate_tx_fee, one call after the other ----

FeeTables == UNION {[ks -> PriceValues] : ks \in SUBSET {N_STEPS_RESOURCE, PEDERSEN}}

\* The orders a HashMap with key set S may be iterated in.
Orders(S) == {o \in [1..Cardinality(S) -> S] : Range(o) = S}

\* A `?` that drops the failure and goes on (as unwrap_or_default would).
TryIgnoringFailure(result, next) == next

\* `?` on a result, and the unwinding of a panic: where control goes.
Try(result, next) ==
    CASE result.tag = "Ok"  -> next
      [] result.tag = "Err" -> "failed"
      [] OTHER              -> "panicked"

Terminal == {"fee_finalized", "failed", "panicked"}

FeeIdle ==
    /\ resources = <<>>
    /\ vm_resource_fee_cost = [k \in {} |-> 0]
    /\ fee_cost_order = <<>>
    /\ gas_price = 0
    /\ pc = "idle"
    /\ l1_gas_usage = 0
    /\ vm_resources = <<>>
    /\ l1_gas_by_vm_usage = NoneYet
    /\ fee = NoneYet
    /\ trail = <<>>

FeeInit ==
    /\ resources \in ResourcesMappings
    /\ vm_resource_fee_cost \in FeeTables
    /\ fee_cost_order \in Orders(DOMAIN vm_resource_fee_cost)
    /\ gas_price \in GasPrices
    /\ pc = "resources_collected"
    /\ l1_gas_usage = 0
    /\ vm_resources = <<>>
    /\ l1_gas_by_vm_usage = NoneYet
    /\ fee = NoneYet
    /\ trail = <<"resources_collected">>

\* calculate_tx_fee, line 58: the extraction.
ExtractL1Gas ==
    /\ pc = "resources_collected"
    /\ LET r == extract_l1_gas_and_vm_usage(resources)
           to == Try(r, "l1_gas_extracted")
       IN /\ pc' = to
          /\ trail' = Append(trail, to)
          /\ l1_gas_usage' = IF r.tag = "Ok" THEN r.val.l1_gas_usage ELSE l1_gas_usage
          /\ vm_resources' = IF r.tag = "Ok" THEN r.val.vm_resource_usage ELSE vm_resources
          /\ fee' = IF to \in Terminal THEN r ELSE fee
    /\ UNCHANGED <<resources, vm_resource_fee_cost, fee_cost_order, gas_price,
                   l1_gas_by_vm_usage, entryVars, iterVars, extVars>>

\* calculate_tx_fee, line 59: the weighted maximum.
CalculateL1GasByVmUsage ==
    /\ pc = "l1_gas_extracted"
    /\ LET r == calculate_l1_gas_by_vm_usage(vm_resource_fee_cost, fee_cost_order,
                                             vm_resources)
           to == Try(r, "weighted_max_computed")
       IN /\ pc' = to
          /\ trail' = Append(trail, to)
          /\ l1_gas_by_vm_usage' = r
          /\ fee' = IF to \in Terminal THEN r ELSE fee
    /\ UNCHANGED <<resources, vm_resource_fee_cost, fee_cost_order, gas_price,
                   l1_gas_usage, vm_resources, entryVars, iterVars, extVars>>

\* calculate_tx_fee, lines 60-65: conversion, sum, ceil, times the gas price.
FinalizeFee ==
    /\ pc = "weighted_max_computed"
    /\ LET converted == checked_from_integer(l1_gas_usage)
       IN IF converted = -1
          THEN /\ pc' = "failed"
               /\ fee' = Err("FixedPointConversion")
          ELSE \E total_l1_gas_usage \in FixedAdd(converted, l1_gas_by_vm_usage.val) :
                 IF total_l1_gas_usage.tag = "Ok"
                 THEN /\ pc' = "fee_finalized"
                      /\ fee' = Ok(saturating_mul_int(ceil(total_l1_gas_usage.val),
                                                      gas_price))
                 ELSE /\ pc' = "panicked"
                      /\ fee' = total_l1_gas_usage
    /\ trail' = Append(trail, pc')
    /\ UNCHANGED <<resources, vm_resource_fee_cost, fee_cost_order, gas_price,
                   l1_gas_usage, vm_resources, l1_gas_by_vm_usage, entryVars, iterVars, extVars>>

FeeNext == ExtractL1Gas \/ CalculateL1GasByVmUsage \/ FinalizeFee


(***************************************************************************)
(* Traversal of a CallInfo tree: `for call_info in root.into_iter()`.      *)
(* The iterator keeps a stack of the nodes still to visit; next() pops the *)
(* top, pushes its inner calls right to left, and returns it.              *)
(***************************************************************************)

\* Bound: the largest call tree the model builds.
MaxNodes == 4

RECURSIVE Ascending(_)
\* The members of a set of numbers as a sequence, smallest first.
Ascending(S) ==
    IF S = {} THEN <<>>
    ELSE LET least == CHOOSE x \in S : \A y \in S : x <= y
         IN <<least>> \o Ascending(S \ {least})

\* The call trees with n nodes: node 1 is the root, every other node is an
\* inner call of an earlier node, and a node lists its inner calls by
\* ascending or by descending number.
CallTrees(n) ==
    UNION { { [i \in 1..n |-> Ascending({j \in 2..n : parent[j] = i})],
              [i \in 1..n |-> Reverse(Ascending({j \in 2..n : parent[j] = i}))] }
            : parent \in {f \in [2..n -> 1..n] : \A j \in 2..n : f[j] < j} }

\* The markers put in call.calldata: each node its own.
Markers(n) == {m \in [1..n -> 0..(n - 1)] : \A i, j \in 1..n : i # j => m[i] # m[j]}

\* The tree of test_call_info_iteration: root (0) with inner calls
\* inner_node (1) and right_leaf (3); inner_node with inner call left_leaf (2).
TestInnerCalls == <<(<<2, 3>>), (<<4>>), (<<>>), (<<>>)>>

TestCalldata == <<0, 1, 3, 2>>

RECURSIVE PreOrderOf(_, _)
\* Pre-order of the subtree at `node`: the node, then the pre-orders of its
\* inner calls one after the other.
PreOrderOf(ic, node) ==
    LET RECURSIVE Concat(_)
        Concat(calls) == IF calls = <<>> THEN <<>>
                         ELSE PreOrderOf(ic, Head(calls)) \o Concat(Tail(calls))
    IN <<node>> \o Concat(ic[node])

\* IntoIterator for &CallInfo: the stack starts with the root alone.
IntoIter == <<1>>

\* An extend that pushes the inner calls left to right.
PushInnerCallsInOrder(stack, calls) == stack \o calls

\* call_infos.extend(call_info.inner_calls.iter().rev()).
PushInnerCalls(stack, calls) == stack \o Reverse(calls)

IterIdle ==
    /\ inner_calls = <<>>
    /\ calldata = <<>>
    /\ call_infos = <<>>
    /\ yielded = <<>>
    /\ ended = TRUE

IterInit ==
    /\ \E n \in 1..MaxNodes :
          /\ inner_calls \in CallTrees(n)
          /\ calldata \in Markers(n)
    /\ call_infos = IntoIter
    /\ yielded = <<>>
    /\ ended = FALSE

\* CallInfoIter::next returning Some(call_info).
IterNextSome ==
    /\ ~ended
    /\ call_infos # <<>>
    /\ LET call_info == call_infos[Len(call_infos)]
           popped == SubSeq(call_infos, 1, Len(call_infos) - 1)
       IN /\ call_infos' = PushInnerCalls(popped, inner_calls[call_info])
          /\ yielded' = Append(yielded, call_info)
    /\ UNCHANGED <<inner_calls, calldata, ended, entryVars, feeVars, extVars>>

\* CallInfoIter::next returning None: the stack is empty.
IterNextNone ==
    /\ ~ended
    /\ call_infos = <<>>
    /\ ended' = TRUE
    /\ UNCHANGED <<inner_calls, calldata, call_infos, yielded, entryVars, feeVars, extVars>>

(***************************************************************************)
(* TransactionExecutionInfo: transaction/objects.rs.                       *)
(* A call tree is held as in the traversal part: node 1 is the root,       *)
(* inner_calls gives every node its children, class_hash gives every node  *)
(* the class hash that served it.                                          *)
(***************************************************************************)
MaxTxNodes == 2

ClassHashes == {1, 2}

Fees == {0, 5}

RevertErrors == {"None", "Transaction reverted"}

\* Option<CallInfo>::None.
NoCallInfo == [tag |-> "None", inner_calls |-> <<>>, class_hash |-> <<>>]

\* Option<CallInfo>: None, or Some tree of at most MaxTxNodes nodes.
OptCallInfos ==
    {NoCallInfo} \cup
    UNION {[tag : {"Some"}, inner_calls : CallTrees(n), class_hash : [1..n -> ClassHashes]]
             : n \in 1..MaxTxNodes}

TransactionExecutionInfos ==
    [validate_call_info : OptCallInfos,
     execute_call_info : OptCallInfos,
     fee_transfer_call_info : OptCallInfos,
     actual_fee : Fees,
     actual_resources : {<<>>, <<[k |-> GAS_USAGE, v |-> 100]>>},
     revert_error : RevertErrors]

\* CallInfo::get_executed_class_hashes: the class hash of every node the
\* traversal of the tree yields.
call_info_get_executed_class_hashes(call_info) ==
    {call_info.class_hash[node] : node \in Range(PreOrderOf(call_info.inner_calls, 1))}

non_optional_call_infos_without_fee_transfer(info) ==
    SelectSeq(<<info.validate_call_info, info.execute_call_info>>,
              LAMBDA c : c.tag = "Some")

\* The call infos that are present, in the order validate, execute, fee transfer.
non_optional_call_infos(info) ==
    SelectSeq(<<info.validate_call_info, info.execute_call_info,
                info.fee_transfer_call_info>>,
              LAMBDA c : c.tag = "Some")

\* itertools::concat over HashSets: the first set extended by the others,
\* the empty set for no sets.
RECURSIVE concat(_)
concat(sets) ==
    IF sets = <<>> THEN {}
    ELSE Head(sets) \cup concat(Tail(sets))

get_executed_class_hashes(info) ==
    LET call_infos_present == non_optional_call_infos(info)
    IN concat([i \in DOMAIN call_infos_present |->
                  call_info_get_executed_class_hashes(call_infos_present[i])])

is_reverted_when_uncharged(info) ==
    info.revert_error # "None" /\ info.fee_transfer_call_info.tag = "None"

is_reverted(info) == info.revert_error # "None"

NotCalled == [tag |-> "NotCalled"]

TxIdle ==
    /\ tx_info = [tag |-> "Idle"]
    /\ executed_class_hashes = NotCalled
    /\ reverted = NotCalled

TxInit ==
    /\ tx_info \in TransactionExecutionInfos
    /\ executed_class_hashes = NotCalled
    /\ reverted = NotCalled

TxActive == "revert_error" \in DOMAIN tx_info

\* One call of get_executed_class_hashes.
GetExecutedClassHashes ==
    /\ TxActive
    /\ executed_class_hashes = NotCalled
    /\ executed_class_hashes' = [tag |-> "Returned", val |-> get_executed_class_hashes(tx_info)]
    /\ UNCHANGED <<tx_info, reverted, exceptTx>>

\* One call of is_reverted.
IsReverted ==
    /\ TxActive
    /\ reverted = NotCalled
    /\ reverted' = [tag |-> "Returned", val |-> is_reverted(tx_info)]
    /\ UNCHANGED <<tx_info, executed_class_hashes, exceptTx>>

TxNext == GetExecutedClassHashes \/ IsReverted

(***************************************************************************)
(* Storage access records of one call: storage_read_values and             *)
(* accessed_storage_keys, as filled by the storage syscalls of the         *)
(* running program (entry_point_test.rs, test_storage_related_members).    *)
(***************************************************************************)
MaxSyscalls == 3

StorageKeys == {1234, 1}

\* The value the test writes, and another one.
StorageValues == {18, 39}

\* A key never written holds 0.
InitialStorages == [StorageKeys -> {0, 39}]

StorageSyscalls ==
    [op : {"storage_read"}, key : StorageKeys, value : {0}]
    \cup [op : {"storage_write"}, key : StorageKeys, value : StorageValues]

\* get_contract_storage_at: mark the key accessed, read it, log the value.
get_contract_storage_at(st, read_values, accessed_keys, key) ==
    [storage |-> st,
     read_values |-> Append(read_values, st[key]),
     accessed_keys |-> accessed_keys \cup {key}]

\* set_contract_storage_at: mark the key accessed, write it.
set_contract_storage_at(st, read_values, accessed_keys, key, value) ==
    [storage |-> [st EXCEPT ![key] = value],
     read_values |-> read_values,
     accessed_keys |-> accessed_keys \cup {key}]

storage_write_without_read(st, read_values, accessed_keys, key, value) ==
    set_contract_storage_at(st, read_values, accessed_keys, key, value)

\* The storage_write syscall: the value is read (and logged) before the write.
storage_write(st, read_values, accessed_keys, key, value) ==
    LET read == get_contract_storage_at(st, read_values, accessed_keys, key)
    IN set_contract_storage_at(read.storage, read.read_values, read.accessed_keys,
                               key, value)

\* The storage_read syscall.
storage_read(st, read_values, accessed_keys, key) ==
    get_contract_storage_at(st, read_values, accessed_keys, key)

StorIdle ==
    /\ storage_at_entry = << >>
    /\ storage = << >>
    /\ syscalls = <<>>
    /\ storage_read_values = <<>>
    /\ accessed_storage_keys = {}

StorInit ==
    /\ storage_at_entry \in InitialStorages
    /\ storage = storage_at_entry
    /\ syscalls = <<>>
    /\ storage_read_values = <<>>
    /\ accessed_storage_keys = {}

StorActive == DOMAIN storage # {}

\* The running program issues a storage_read.
StorageRead ==
    /\ StorActive
    /\ Len(syscalls) < MaxSyscalls
    /\ \E key \in StorageKeys :
         LET after == storage_read(storage, storage_read_values,
                                   accessed_storage_keys, key)
         IN /\ storage' = after.storage
            /\ storage_read_values' = after.read_values
            /\ accessed_storage_keys' = after.accessed_keys
            /\ syscalls' = Append(syscalls,
                                  [op |-> "storage_read", key |-> key, value |-> 0])
    /\ UNCHANGED <<storage_at_entry, exceptStor>>

\* The running program issues a storage_write.
StorageWrite ==
    /\ StorActive
    /\ Len(syscalls) < MaxSyscalls
    /\ \E key \in StorageKeys, value \in StorageValues :
         LET after == storage_write(storage, storage_read_values,
                                    accessed_storage_keys, key, value)
         IN /\ storage' = after.storage
            /\ storage_read_values' = after.read_values
            /\ accessed_storage_keys' = after.accessed_keys
            /\ syscalls' = Append(syscalls,
                                  [op |-> "storage_write", key |-> key, value |-> value])
    /\ UNCHANGED <<storage_at_entry, exceptStor>>

StorNext == StorageRead \/ StorageWrite

(***************************************************************************)
(* Execution of one call tree: CallEntryPoint::execute, recursively.       *)
(* The running invocation is the last frame of call_stack; the frames      *)
(* before it are its suspended callers.  A failure is raised by the        *)
(* running invocation and handed upwards one caller at a time, every       *)
(* caller adding its calling context to the accumulating trace             *)
(* (entry_point_test.rs, test_stack_trace).                                *)
(***************************************************************************)
MaxCalls == 4

MaxDepth == 3

TEST_CONTRACT_ADDRESS == "TEST_CONTRACT_ADDRESS"

TEST_CONTRACT_ADDRESS_2 == "TEST_CONTRACT_ADDRESS_2"

SECURITY_TEST_CONTRACT_ADDRESS == "SECURITY_TEST_CONTRACT_ADDRESS"

ContractAddresses ==
    {TEST_CONTRACT_ADDRESS, TEST_CONTRACT_ADDRESS_2, SECURITY_TEST_CONTRACT_ADDRESS}

\* Offset of the test_call_contract entry point in the test class; the test
\* reads it from the class and uses it only through the two sums below.
entry_point_offset == 100

call_location == entry_point_offset + 14

entry_point_location == entry_point_offset - 3

ASSERT_EQ_FAILED == "An ASSERT_EQ instruction failed: 1 != 0."

HINT_EXCEPTION == "Got an exception while executing a hint."

\* {:?} of a StarkFelt writes its 32 bytes as 64 hexadecimal digits; hex gives
\* the last n digits of v.
RECURSIVE hex(_, _)
hex(v, n) ==
    LET digit == <<"0", "1", "2", "3", "4", "5", "6", "7",
                   "8", "9", "a", "b", "c", "d", "e", "f">>
    IN IF n = 0 THEN "" ELSE hex(v \div 16, n - 1) \o digit[(v % 16) + 1]

\* Display of PreExecutionError::EntryPointNotFound: the selector in its Debug
\* form, and a final period.
entry_point_not_found(selector) ==
    "Entry point EntryPointSelector(StarkFelt(\"0x" \o hex(selector, 64)
        \o "\")) not found in contract."

\* The error of the call of the security contract, whose selector is 0x19.
ENTRY_POINT_NOT_FOUND == entry_point_not_found(25)

\* What the interpreter reports when the running program fails on one of its
\* own instructions: the failing location, the message and the
\* program-counter traceback (most recent call last); kind is the variant of
\* the error execute returns for it (test_stack_trace matches
\* VirtualMachineExecutionErrorWithTrace { trace, source: _ }).
InstructionFailure ==
    [kind |-> "VirtualMachineExecutionErrorWithTrace", pc |-> 58, message |-> ASSERT_EQ_FAILED,
     traceback |-> <<62>>]

\* What the interpreter reports in a caller whose call_contract syscall failed.
CallingContextFailure ==
    [kind |-> "VirtualMachineExecutionErrorWithTrace", pc |-> 37, message |-> HINT_EXCEPTION,
     traceback |-> <<call_location, entry_point_location>>]

\* Entry-point resolution failed for a call the running program issued.
ResolutionFailure ==
    [kind |-> "EntryPointNotFound", pc |-> 0, message |-> ENTRY_POINT_NOT_FOUND,
     traceback |-> <<>>]

\* One line of the rendered trace.
Line(what, address, at, text) ==
    [line |-> what, address |-> address, pc |-> at, text |-> text]

BlankLine == Line("", "", 0, "")

\* The trace fragment of one interpreter failure: the failing location, the
\* message, then the traceback.
vm_trace(failure) ==
    <<Line("Error at pc", "", failure.pc, ""),
      Line("message", "", 0, failure.message),
      Line("Cairo traceback (most recent call last)", "", 0, "")>>
    \o [i \in DOMAIN failure.traceback |->
           Line("Unknown location", "", failure.traceback[i], "")]

\* One block: the contract's header followed by its trace fragment.
Block(entry) ==
    <<Line("Error in the called contract", entry.address, 0, "")>> \o entry.trace

RECURSIVE JoinBlocksWithoutSeparator(_)
JoinBlocksWithoutSeparator(blocks) ==
    IF blocks = <<>> THEN <<>>
    ELSE Head(blocks) \o JoinBlocksWithoutSeparator(Tail(blocks))

RECURSIVE JoinBlocks(_)
JoinBlocks(blocks) ==
    IF blocks = <<>> THEN <<>>
    ELSE IF Len(blocks) = 1 THEN Head(blocks)
    ELSE Head(blocks) \o <<BlankLine>> \o JoinBlocks(Tail(blocks))

error_trace_innermost_first(stack) ==
    JoinBlocks([i \in DOMAIN stack |-> Block(stack[i])])

\* The error stack is filled from the failing contract outwards and rendered
\* in reverse, blocks separated by a blank line.
error_trace(stack) ==
    JoinBlocks([i \in DOMAIN stack |-> Block(Reverse(stack)[i])])

NotRaised == [tag |-> "None"]

\* A caller whose call failed fails in turn, on its call_contract hint: what
\* it returns is the error of that interpreter failure, with the trace of the
\* error stack it has just extended and the error of the failed call beneath
\* it as its source.
augment(error, stack) ==
    [tag |-> "Raised", kind |-> CallingContextFailure.kind,
     trace |-> error_trace(stack), source |-> error]

attach_in_front(calls, id) == <<id>> \o calls

\* A completed inner call is appended to its caller's inner_calls.
attach(calls, id) == Append(calls, id)

Frame(id, address) ==
    [id |-> id, storage_address |-> address, issued |-> <<>>, inner_calls |-> <<>>]

\* The record kept of an invocation that has completed.
Completion(frame, failed) ==
    [id |-> frame.id, storage_address |-> frame.storage_address,
     issued |-> frame.issued, inner_calls |-> frame.inner_calls, failed |-> failed]

\* The error raised by a failure that no caller has seen yet.
raise(failure, stack) ==
    [tag |-> "Raised", kind |-> failure.kind, trace |-> error_trace(stack),
     source |-> failure]

Top(stack) == stack[Len(stack)]

Pop(stack) == SubSeq(stack, 1, Len(stack) - 1)

Addresses(stack) == [i \in DOMAIN stack |-> stack[i].storage_address]

ExecIdle ==
    /\ call_stack = <<>>
    /\ next_id = 0
    /\ completed = <<>>
    /\ error_stack = <<>>
    /\ raised = NotRaised
    /\ origin = [tag |-> "None"]
    /\ exec_result = [tag |-> "Idle"]

\* execute() is called on the outermost call.
ExecInit ==
    /\ \E address \in ContractAddresses : call_stack = <<Frame(1, address)>>
    /\ next_id = 2
    /\ completed = <<>>
    /\ error_stack = <<>>
    /\ raised = NotRaised
    /\ origin = [tag |-> "None"]
    /\ exec_result = Pending

Running == call_stack # <<>> /\ raised.tag = "None"

\* The running program calls a contract: the caller is suspended and the
\* callee starts running.
CallContract ==
    /\ Running
    /\ next_id <= MaxCalls
    /\ Len(call_stack) < MaxDepth
    /\ \E address \in ContractAddresses :
         call_stack' =
             Append([call_stack EXCEPT ![Len(call_stack)].issued = Append(@, next_id)],
                    Frame(next_id, address))
    /\ next_id' = next_id + 1
    /\ UNCHANGED <<completed, error_stack, raised, origin, exec_result, exceptExec>>

\* The running program returns: its CallInfo is attached to the caller, or
\* is the result of the outermost execute.
Return ==
    /\ Running
    /\ LET frame == Top(call_stack)
           rest == Pop(call_stack)
       IN /\ completed' = Append(completed, Completion(frame, FALSE))
          /\ IF rest = <<>>
             THEN /\ call_stack' = <<>>
                  /\ exec_result' = [tag |-> "Ok", call_info |-> frame.id]
             ELSE /\ call_stack' =
                        [rest EXCEPT ![Len(rest)].inner_calls = attach(@, frame.id)]
                  /\ UNCHANGED exec_result
    /\ UNCHANGED <<next_id, error_stack, raised, origin, exceptExec>>

\* The running program fails on one of its own instructions.
Fail ==
    /\ Running
    /\ LET frame == Top(call_stack)
           rest == Pop(call_stack)
           stack == Append(error_stack, [address |-> frame.storage_address,
                                         trace |-> vm_trace(InstructionFailure)])
           error == raise(InstructionFailure, stack)
       IN /\ error_stack' = stack
          /\ raised' = error
          /\ origin' = [tag |-> "Origin", chain |-> Addresses(call_stack),
                        inside |-> TRUE]
          /\ completed' = Append(completed, Completion(frame, TRUE))
          /\ call_stack' = rest
          /\ exec_result' = IF rest = <<>> THEN [tag |-> "Err", error |-> error]
                            ELSE exec_result
    /\ UNCHANGED <<next_id, exceptExec>>

\* The running program calls a selector the callee's class does not have:
\* the call fails in entry-point resolution, before the callee runs.
CallUnresolved ==
    /\ Running
    /\ next_id <= MaxCalls
    /\ Len(call_stack) < MaxDepth
    /\ \E address \in ContractAddresses :
         completed' = Append(completed, Completion(Frame(next_id, address), TRUE))
    /\ call_stack' = [call_stack EXCEPT ![Len(call_stack)].issued = Append(@, next_id)]
    /\ next_id' = next_id + 1
    /\ raised' = raise(ResolutionFailure, error_stack)
    /\ origin' = [tag |-> "Origin", chain |-> Addresses(call_stack), inside |-> FALSE]
    /\ UNCHANGED <<error_stack, exec_result, exceptExec>>

\* A caller receives the failure of the call it was suspended on, adds its
\* calling context and fails in turn.
Propagate ==
    /\ call_stack # <<>>
    /\ raised.tag = "Raised"
    /\ LET frame == Top(call_stack)
           rest == Pop(call_stack)
           stack == Append(error_stack, [address |-> frame.storage_address,
                                         trace |-> vm_trace(CallingContextFailure)])
           error == augment(raised, stack)
       IN /\ error_stack' = stack
          /\ raised' = error
          /\ completed' = Append(completed, Completion(frame, TRUE))
          /\ call_stack' = rest
          /\ exec_result' = IF rest = <<>> THEN [tag |-> "Err", error |-> error]
                            ELSE exec_result
    /\ UNCHANGED <<next_id, origin, exceptExec>>

ExecNext == CallContract \/ Return \/ Fail \/ CallUnresolved \/ Propagate

(***************************************************************************)
(* Contract classes of both variants: constructor_selector and the V0      *)
(* estimate of the class-hash computation (execution/contract_class.rs).   *)
(***************************************************************************)
CAIRO0_ENTRY_POINT_STRUCT_SIZE == 2

N_STEPS_PER_PEDERSEN == 8

USIZE_MAX == 2^UsizeBits - 1

\* V0 entry points: a selector and an offset.
EntryPointPoolV0 ==
    {[selector |-> e.selector, offset |-> e.offset] : e \in EntryPointPool}

EntryPointsByTypeV0 ==
    UNION {[ts -> SeqsUpTo(EntryPointPoolV0, MaxBucketLen)] : ts \in SUBSET EntryPointType}

\* Program::builtins_len() and Program::data_len() of the class's program.
BuiltinCounts == {0, 2}

BytecodeLengths == {0, 5}

ContractClasses ==
    [variant : {"V0"}, entry_points_by_type : EntryPointsByTypeV0,
     n_builtins : BuiltinCounts, bytecode_length : BytecodeLengths]
    \cup
    [variant : {"V1"}, entry_points_by_type : EntryPointsByType,
     n_builtins : BuiltinCounts, bytecode_length : BytecodeLengths]

NoSelector == [tag |-> "None", selector |-> 0]

SomeSelector(s) == [tag |-> "Some", selector |-> s]

SelectorPanic == [tag |-> "Panic", selector |-> 0]

\* ContractClassV0::constructor_selector: the map is indexed with the
\* Constructor type, then first()? on the bucket.
constructor_selector_v0(c) ==
    IF "Constructor" \notin DOMAIN c.entry_points_by_type THEN SelectorPanic
    ELSE LET bucket == c.entry_points_by_type["Constructor"]
         IN IF bucket = <<>> THEN NoSelector ELSE SomeSelector(bucket[1].selector)

\* ContractClassV1::constructor_selector: the same on the V1 map.
constructor_selector_v1(c) ==
    IF "Constructor" \notin DOMAIN c.entry_points_by_type THEN SelectorPanic
    ELSE LET bucket == c.entry_points_by_type["Constructor"]
         IN IF bucket = <<>> THEN NoSelector ELSE SomeSelector(bucket[1].selector)

\* ContractClass::constructor_selector.
constructor_selector(c) ==
    IF c.variant = "V0" THEN constructor_selector_v0(c) ELSE constructor_selector_v1(c)

RECURSIVE SumOfLengths(_, _)
SumOfLengths(m, keys) ==
    IF keys = {} THEN 0
    ELSE LET k == CHOOSE x \in keys : TRUE
         IN Len(m[k]) + SumOfLengths(m, keys \ {k})

n_entry_points_external_only(c) ==
    IF "External" \in DOMAIN c.entry_points_by_type
    THEN Len(c.entry_points_by_type["External"]) ELSE 0

\* ContractClassV0::n_entry_points: the bucket lengths summed over the map.
n_entry_points(c) == SumOfLengths(c.entry_points_by_type, DOMAIN c.entry_points_by_type)

VmExecutionResources(n_steps, hashed_data_size) ==
    [tag |-> "Returned", n_steps |-> n_steps, n_memory_holes |-> 0,
     builtin_instance_counter |-> (PEDERSEN :> hashed_data_size)]

ArithmeticPanic ==
    [tag |-> "Panic", n_steps |-> 0, n_memory_holes |-> 0,
     builtin_instance_counter |-> (PEDERSEN :> 0)]

estimate_from_counts_in_narrow_integers(entry_points, builtins, bytecode) ==
    LET narrow == 2^(UsizeBits - 7)
        hashed_data_size ==
            (CAIRO0_ENTRY_POINT_STRUCT_SIZE * entry_points + builtins + bytecode + 1)
                % narrow
    IN {VmExecutionResources((N_STEPS_PER_PEDERSEN * hashed_data_size) % narrow,
                             hashed_data_size)}

\* Lines 107-121 on the three counts, in usize arithmetic: a result that
\* does not fit makes the build with overflow checks panic and the build
\* without them wrap.
estimate_from_counts(entry_points, builtins, bytecode) ==
    LET hashed_data_size ==
            CAIRO0_ENTRY_POINT_STRUCT_SIZE * entry_points + builtins + bytecode + 1
        n_steps == N_STEPS_PER_PEDERSEN * hashed_data_size
    IN IF n_steps <= USIZE_MAX
       THEN {VmExecutionResources(n_steps, hashed_data_size)}
       ELSE {ArithmeticPanic,
             VmExecutionResources(n_steps % (USIZE_MAX + 1),
                                  hashed_data_size % (USIZE_MAX + 1))}

\* ContractClassV0::estimate_casm_hash_computation_resources.
estimate_casm_hash_computation_resources_v0(c) ==
    estimate_from_counts(n_entry_points(c), c.n_builtins, c.bytecode_length)

ClassIdle ==
    /\ contract_class = [variant |-> "None"]
    /\ ctor_result = NotCalled
    /\ estimate = NotCalled

ClassInit ==
    /\ contract_class \in ContractClasses
    /\ ctor_result = NotCalled
    /\ estimate = NotCalled

\* One call of ContractClass::constructor_selector.
ConstructorSelector ==
    /\ contract_class.variant \in {"V0", "V1"}
    /\ ctor_result = NotCalled
    /\ ctor_result' = constructor_selector(contract_class)
    /\ UNCHANGED <<contract_class, estimate, exceptClass>>

\* One call of estimate_casm_hash_computation_resources on a V0 class.
EstimateV0 ==
    /\ contract_class.variant = "V0"
    /\ estimate = NotCalled
    /\ estimate' \in estimate_casm_hash_computation_resources_v0(contract_class)
    /\ UNCHANGED <<contract_class, ctor_result, exceptClass>>

ClassNext == ConstructorSelector \/ EstimateV0

(***************************************************************************)
(* The V0 estimate of two classes of which the second has more of one of   *)
(* entry points, builtins and bytecode, and as much of the other two.      *)
(***************************************************************************)
\* The maps of the classes compared here: every bucket holds up to
\* MaxBucketLen entries, all EntryPoint::default().
WordEntryPoints ==
    UNION {[ts -> SeqsUpTo({[selector |-> 0, offset |-> 0]}, MaxBucketLen)] :
              ts \in SUBSET EntryPointType}

WordClasses ==
    [variant : {"V0"}, entry_points_by_type : WordEntryPoints,
     n_builtins : BuiltinCounts, bytecode_length : BytecodeLengths]

CountNames == {"n_entry_points", "n_builtins", "bytecode_length"}

\* n_entry_points(), n_builtins() and bytecode_length() of a class.
counts_of(c) ==
    [n_entry_points |-> n_entry_points(c), n_builtins |-> c.n_builtins,
     bytecode_length |-> c.bytecode_length]

WordIdle ==
    /\ lower_class = [variant |-> "None"]
    /\ higher_class = [variant |-> "None"]
    /\ lower_estimate = [tag |-> "Idle"]
    /\ higher_estimate = [tag |-> "Idle"]

\* Two classes in memory: one count of the second is larger, the other two
\* are equal.
WordInit ==
    /\ lower_class \in WordClasses
    /\ higher_class \in WordClasses
    /\ \E name \in CountNames :
          /\ counts_of(higher_class)[name] > counts_of(lower_class)[name]
          /\ \A other \in CountNames \ {name} :
                counts_of(higher_class)[other] = counts_of(lower_class)[other]
    /\ lower_estimate = NotCalled
    /\ higher_estimate = NotCalled

\* The estimate of the first class.
EstimateLower ==
    /\ lower_estimate = NotCalled
    /\ lower_estimate' \in estimate_casm_hash_computation_resources_v0(lower_class)
    /\ UNCHANGED <<lower_class, higher_class, higher_estimate, exceptWord>>

\* The estimate of the second class.
EstimateHigher ==
    /\ higher_estimate = NotCalled
    /\ higher_estimate' \in estimate_casm_hash_computation_resources_v0(higher_class)
    /\ UNCHANGED <<lower_class, higher_class, lower_estimate, exceptWord>>

WordNext == EstimateLower \/ EstimateHigher

(***************************************************************************)
(* The V1 estimate of the class-hash computation                           *)
(* (ContractClassV1::estimate_casm_hash_computation_resources).            *)
(*                                                                         *)
(* The code computes in f64.  A float is held here as [m, e], standing for *)
(* m * 2^e, and every operation rounds its exact result to the nearest     *)
(* float of F64MantissaBits significant bits, ties to even (53 bits in the *)
(* code).  The scaled width keeps what matters: 5.7 and 10.9 are not       *)
(* representable and their nearest floats lie above them, as with 53 bits. *)
(***************************************************************************)
F64MantissaBits == 17

POSEIDON == "poseidon_builtin"

RECURSIVE BitLen(_)
BitLen(n) == IF n = 0 THEN 0 ELSE 1 + BitLen(n \div 2)

\* The integer nearest to num / den, a tie going to the even one.
RoundRatio(num, den) ==
    LET q == num \div den
        r == num % den
    IN IF 2 * r > den \/ (2 * r = den /\ q % 2 = 1) THEN q + 1 ELSE q

\* The float nearest to the exact value m * 2^e.
RoundF64(m, e) ==
    LET drop == BitLen(m) - F64MantissaBits
    IN IF drop <= 0 THEN [m |-> m, e |-> e]
       ELSE [m |-> RoundRatio(m, 2^drop), e |-> e + drop]

\* The float a decimal literal num / den (at least 1) denotes.
F64Literal(num, den) ==
    LET e == BitLen(num \div den) - F64MantissaBits
    IN IF e < 0 THEN [m |-> RoundRatio(num * 2^(0 - e), den), e |-> e]
       ELSE [m |-> RoundRatio(num, den * 2^e), e |-> e]

\* 0.5 is a power of two: exact in every binary format.
F64Half == [m |-> 1, e |-> 0 - 1]

\* usize as f64.
usize_as_f64(n) == RoundF64(n, 0)

f64_mul(a, b) == RoundF64(a.m * b.m, a.e + b.e)

f64_add(a, b) ==
    LET e == IF a.e < b.e THEN a.e ELSE b.e
    IN RoundF64(a.m * 2^(a.e - e) + b.m * 2^(b.e - e), e)

f64_as_usize_to_nearest(x) ==
    IF x.e >= 0 THEN x.m * 2^x.e ELSE RoundRatio(x.m, 2^(0 - x.e))

\* f64 as usize on a non-negative float: the fraction is dropped.
f64_as_usize(x) ==
    IF x.e >= 0 THEN x.m * 2^x.e ELSE x.m \div 2^(0 - x.e)

\* ContractClassV1::estimate_casm_hash_computation_resources.
estimate_casm_hash_computation_resources_v1(c) ==
    LET bytecode_length == usize_as_f64(c.bytecode_length)
        n_steps ==
            f64_as_usize(f64_add(F64Literal(503, 1),
                                 f64_mul(bytecode_length, F64Literal(57, 10))))
        n_poseidon_builtins ==
            f64_as_usize(f64_add(F64Literal(109, 10),
                                 f64_mul(bytecode_length, F64Half)))
    IN [tag |-> "Returned", n_steps |-> n_steps, n_memory_holes |-> 0,
        builtin_instance_counter |-> (POSEIDON :> n_poseidon_builtins)]

\* Program::data_len() of the V1 classes estimated here.  A class holds its
\* bytecode in memory, so its length stays far below the lengths at which
\* the mantissa no longer resolves tenths.
MaxBytecodeLength == 120

V1Classes ==
    [variant : {"V1"},
     entry_points_by_type : [EntryPointType -> SeqsUpTo(EntryPointPool, 1)],
     n_builtins : BuiltinCounts,
     bytecode_length : 0..MaxBytecodeLength]

V1ClassInit ==
    /\ contract_class \in V1Classes
    /\ ctor_result = NotCalled
    /\ estimate = NotCalled

\* One call of estimate_casm_hash_computation_resources on a V1 class.
EstimateV1 ==
    /\ contract_class.variant = "V1"
    /\ estimate = NotCalled
    /\ estimate' = estimate_casm_hash_computation_resources_v1(contract_class)
    /\ UNCHANGED <<contract_class, ctor_result, exceptClass>>

(***************************************************************************)
(* The compact binary form: the primitives of the codec the code calls     *)
(* (compact integers, fixed-width integers, strings), and on them the      *)
(* Encode and Decode of ResourcesMapping (transaction/objects.rs).         *)
(* An encoding is a sequence of bytes.                                     *)
(***************************************************************************)
RANGE_CHECK == "range_check_builtin"

Strings ==
    ResourceNames \cup {RANGE_CHECK, POSEIDON, "alloc_segment", "test_less_than"}

\* The UTF-8 bytes of the strings the model uses.
Utf8(s) ==
    CASE s = GAS_USAGE ->
            <<108, 49, 95, 103, 97, 115, 95, 117, 115, 97, 103, 101>>
      [] s = N_STEPS_RESOURCE ->
            <<110, 95, 115, 116, 101, 112, 115>>
      [] s = PEDERSEN ->
            <<112, 101, 100, 101, 114, 115, 101, 110,
              95, 98, 117, 105, 108, 116, 105, 110>>
      [] s = RANGE_CHECK ->
            <<114, 97, 110, 103, 101, 95, 99, 104, 101, 99, 107,
              95, 98, 117, 105, 108, 116, 105, 110>>
      [] s = POSEIDON ->
            <<112, 111, 115, 101, 105, 100, 111, 110,
              95, 98, 117, 105, 108, 116, 105, 110>>
      [] s = "alloc_segment" ->
            <<97, 108, 108, 111, 99, 95, 115, 101, 103, 109, 101, 110, 116>>
      [] s = "test_less_than" ->
            <<116, 101, 115, 116, 95, 108, 101, 115, 115, 95, 116, 104, 97, 110>>

\* A decoder's outcome: the value read and the input left, or a failure.
Read(value, rest) == [ok |-> TRUE, val |-> value, rest |-> rest]

ReadError == [ok |-> FALSE, val |-> 0, rest |-> <<>>]

Drop(bytes, n) == SubSeq(bytes, n + 1, Len(bytes))

RECURSIVE LeBytes(_, _)
LeBytes(v, n) == IF n = 0 THEN <<>> ELSE <<v % 256>> \o LeBytes(v \div 256, n - 1)

RECURSIVE FromLeBytes(_)
FromLeBytes(bytes) ==
    IF bytes = <<>> THEN 0 ELSE bytes[1] + 256 * FromLeBytes(Tail(bytes))

\* Compact<u64>::encode_to: one byte below 2^6, two below 2^14, four below
\* 2^30, the mode in the two low bits.  No length of the model goes beyond.
compact_encode(n) ==
    IF n < 64 THEN <<4 * n>>
    ELSE IF n < 2^14 THEN LeBytes(4 * n + 1, 2)
    ELSE <<(4 * (n % 64) + 2) % 256>> \o LeBytes(n \div 64, 3)

\* Compact<u32>::decode, as Vec and String call it for their length: a value
\* written in a longer mode than it needs is refused.
compact_decode(bytes) ==
    IF bytes = <<>> THEN ReadError
    ELSE LET mode == bytes[1] % 4
         IN CASE mode = 0 -> Read(bytes[1] \div 4, Tail(bytes))
              [] mode = 1 ->
                    IF Len(bytes) < 2 THEN ReadError
                    ELSE LET x == FromLeBytes(SubSeq(bytes, 1, 2)) \div 4
                         IN IF x >= 64 THEN Read(x, Drop(bytes, 2)) ELSE ReadError
              [] mode = 2 ->
                    IF Len(bytes) < 4 THEN ReadError
                    ELSE LET x == bytes[1] \div 4 + 64 * FromLeBytes(SubSeq(bytes, 2, 4))
                         IN IF x >= 2^14 THEN Read(x, Drop(bytes, 4)) ELSE ReadError
              [] OTHER -> ReadError

\* u64::encode_to: eight bytes, little endian.
u64_encode(v) == LeBytes(v, 8)

u64_decode(bytes) ==
    IF Len(bytes) < 8 THEN ReadError
    ELSE Read(FromLeBytes(SubSeq(bytes, 1, 8)), Drop(bytes, 8))

\* String::encode_to: the compact byte length, then the UTF-8 bytes.
string_encode(s) == compact_encode(Len(Utf8(s))) \o Utf8(s)

\* String::decode: the bytes must be those of a string.
string_decode(bytes) ==
    LET len == compact_decode(bytes)
    IN IF ~len.ok \/ Len(len.rest) < len.val THEN ReadError
       ELSE LET utf8 == SubSeq(len.rest, 1, len.val)
            IN IF \E s \in Strings : Utf8(s) = utf8
               THEN Read(CHOOSE s \in Strings : Utf8(s) = utf8,
                         Drop(len.rest, len.val))
               ELSE ReadError

\* self.0.iter().for_each(|v| v.encode_to(dest)): every (key, value) pair in
\* the order of iteration.
RECURSIVE encode_pairs(_)
encode_pairs(m) ==
    IF m = <<>> THEN <<>>
    ELSE string_encode(m[1].k) \o u64_encode(m[1].v) \o encode_pairs(Tail(m))

ResourcesMapping_encode_sorted_by_value(m) ==
    compact_encode(Len(m))
        \o encode_pairs(SortSeq(m, LAMBDA a, b : a.v < b.v))

\* Encode for ResourcesMapping.
ResourcesMapping_encode(m) == compact_encode(Len(m)) \o encode_pairs(m)

\* The n elements of a Vec<(String, u64)>.
RECURSIVE decode_pairs(_, _)
decode_pairs(bytes, n) ==
    IF n = 0 THEN Read(<<>>, bytes)
    ELSE LET key == string_decode(bytes)
         IN IF ~key.ok THEN ReadError
            ELSE LET value == u64_decode(key.rest)
                 IN IF ~value.ok THEN ReadError
                    ELSE LET others == decode_pairs(value.rest, n - 1)
                         IN IF ~others.ok THEN ReadError
                            ELSE Read(<<[k |-> key.val, v |-> value.val]>>
                                          \o others.val,
                                      others.rest)

\* IndexMap::from_iter: the pairs inserted one after the other.
RECURSIVE InsertAll(_, _)
InsertAll(m, pairs) ==
    IF pairs = <<>> THEN m
    ELSE InsertAll(Insert(m, pairs[1].k, pairs[1].v), Tail(pairs))

DecodeFailed == [tag |-> "Err", val |-> <<>>]

Decoded(value) == [tag |-> "Ok", val |-> value]

\* Decode for ResourcesMapping.
ResourcesMapping_decode(bytes) ==
    LET len == compact_decode(bytes)
    IN IF ~len.ok THEN DecodeFailed
       ELSE LET pairs == decode_pairs(len.rest, len.val)
            IN IF ~pairs.ok THEN DecodeFailed
               ELSE Decoded(InsertAll(<<>>, pairs.val))

MapIdle ==
    /\ mapping = <<>>
    /\ mapping_encoded = [tag |-> "Idle"]
    /\ mapping_decoded = [tag |-> "Idle"]

MapInit ==
    /\ mapping \in ResourcesMappings
    /\ mapping_encoded = NotCalled
    /\ mapping_decoded = NotCalled

\* resources_mapping.encode()
EncodeMapping ==
    /\ mapping_encoded = NotCalled
    /\ mapping_encoded' = [tag |-> "Bytes", val |-> ResourcesMapping_encode(mapping)]
    /\ UNCHANGED <<mapping, mapping_decoded, exceptMap>>

\* ResourcesMapping::decode(&mut &encoded[..])
DecodeMapping ==
    /\ mapping_encoded.tag = "Bytes"
    /\ mapping_decoded = NotCalled
    /\ mapping_decoded' = ResourcesMapping_decode(mapping_encoded.val)
    /\ UNCHANGED <<mapping, mapping_encoded, exceptMap>>

MapNext == EncodeMapping \/ DecodeMapping

(***************************************************************************)
(* The cache of the build without std: SizedCache (without_std.rs).        *)
(* A cache is the hash map it wraps; of the size it was made with, the     *)
(* map keeps nothing but an initial capacity.                              *)
(***************************************************************************)
MaxCacheOps == 4

CacheKeys == {1, 2, 3}

CacheValues == {10, 20}

CacheSizes == {0, 1, 2}

\* Option<&V>, usize and Option<usize> as one shape.
SomeValue(v) == [some |-> TRUE, value |-> v]

NoValue == [some |-> FALSE, value |-> 0]

\* SizedCache::with_size: HashMap::with_capacity(size).
with_size(size) == [entries |-> <<>>, capacity |-> size]

\* SizedCache::cache_get: HashMap::get.
cache_get(cache, class_hash) ==
    IF class_hash \in DOMAIN cache.entries
    THEN SomeValue(cache.entries[class_hash]) ELSE NoValue

cache_set_evicting_when_full(cache, class_hash, value) ==
    LET stored == DOMAIN cache.entries
        kept == IF class_hash \notin stored /\ Cardinality(stored) >= cache.capacity
                THEN {} ELSE stored
    IN [cache EXCEPT !.entries =
           [k \in kept \cup {class_hash} |->
               IF k = class_hash THEN value ELSE cache.entries[k]]]

\* SizedCache::cache_set: HashMap::insert.
cache_set(cache, class_hash, value) ==
    [cache EXCEPT !.entries =
        [k \in DOMAIN cache.entries \cup {class_hash} |->
            IF k = class_hash THEN value ELSE cache.entries[k]]]

\* Cached::cache_size, the default method.
cache_size(cache) == SomeValue(1)

\* Cached::cache_hits, the default method.
cache_hits(cache) == SomeValue(1)

\* One entry of the history: the operation, its key and what it was given
\* (cache_set) or what it returned (the others).
Called(op, key, outcome) ==
    [op |-> op, key |-> key, some |-> outcome.some, value |-> outcome.value]

CacheIdle ==
    /\ sized_cache = [entries |-> <<>>, capacity |-> 0]
    /\ cache_history = <<[op |-> "idle"]>>

CacheInit ==
    /\ \E size \in CacheSizes : sized_cache = with_size(size)
    /\ cache_history = <<>>

CacheSet ==
    /\ Len(cache_history) < MaxCacheOps
    /\ \E k \in CacheKeys, v \in CacheValues :
          /\ sized_cache' = cache_set(sized_cache, k, v)
          /\ cache_history' = Append(cache_history, Called("cache_set", k, SomeValue(v)))
    /\ UNCHANGED exceptCache

\* cache_get takes the cache by mutable reference and leaves it as it is.
CacheGet ==
    /\ Len(cache_history) < MaxCacheOps
    /\ \E k \in CacheKeys :
          cache_history' =
              Append(cache_history, Called("cache_get", k, cache_get(sized_cache, k)))
    /\ UNCHANGED <<sized_cache, exceptCache>>

CacheSize ==
    /\ Len(cache_history) < MaxCacheOps
    /\ cache_history' = Append(cache_history, Called("cache_size", 0, cache_size(sized_cache)))
    /\ UNCHANGED <<sized_cache, exceptCache>>

CacheHits ==
    /\ Len(cache_history) < MaxCacheOps
    /\ cache_history' = Append(cache_history, Called("cache_hits", 0, cache_hits(sized_cache)))
    /\ UNCHANGED <<sized_cache, exceptCache>>

CacheNext == CacheSet \/ CacheGet \/ CacheSize \/ CacheHits

(***************************************************************************)
(* The construction of a V1 class from a compiled class:                   *)
(* TryFrom<CasmContractClass> for ContractClassV1 and                      *)
(* convert_entry_points_v1 (execution/contract_class.rs).                  *)
(***************************************************************************)
\* The field of the felts, scaled down from 2^251 + 17 * 2^192 + 1.
CAIRO_PRIME == 11

\* CasmContractEntryPoint values: the selector is a big integer, the
\* builtins are named as the compiler names them.
CasmEntryPointPool ==
    { [selector |-> selector_from_name(CONSTRUCTOR_ENTRY_POINT_NAME), offset |-> 0,
       builtins |-> <<>>],
      [selector |-> selector_from_name("without_arg"), offset |-> 1,
       builtins |-> <<"pedersen", "range_check">>] }

CasmEntryPoints == SeqsUpTo(CasmEntryPointPool, MaxBucketLen)

\* CasmContractClass: the three entry-point lists and the bytecode; of the
\* hints the model keeps whether the VM's Program::new and the hint
\* serialisation accept them.
CasmContractClasses ==
    [entry_points_by_type :
         [constructor : CasmEntryPoints, external : CasmEntryPoints,
          l1_handler : CasmEntryPoints],
     bytecode_length : BytecodeLengths,
     accepted : BOOLEAN]

\* EntryPointSelector(felt_to_stark_felt(&Felt252::try_from(ep.selector).unwrap())):
\* the big integer as a felt.  The conversion is total, the unwrap never fails.
entry_point_selector(selector) == selector % CAIRO_PRIME

\* convert_entry_points_v1: entry by entry, in order.
convert_entry_points_v1(external) ==
    [i \in DOMAIN external |->
        [selector |-> entry_point_selector(external[i].selector),
         offset   |-> external[i].offset,
         builtins |-> [j \in DOMAIN external[i].builtins |->
                          external[i].builtins[j] \o "_builtin"]]]

\* HashMap::insert.
HashMapInsert(m, key, value) ==
    [k \in DOMAIN m \cup {key} |-> IF k = key THEN value ELSE m[k]]

BuiltClass(entry_points_by_type, bytecode_length) ==
    [tag |-> "Ok",
     class |-> [variant |-> "V1", entry_points_by_type |-> entry_points_by_type,
                n_builtins |-> 0, bytecode_length |-> bytecode_length]]

ProgramError == [tag |-> "Err", class |-> [variant |-> "None"]]

try_from_inserting_declared_lists_only(casm) ==
    LET lists == casm.entry_points_by_type
        declared == {t \in EntryPointType :
                        \/ t = "Constructor" /\ lists.constructor # <<>>
                        \/ t = "External" /\ lists.external # <<>>
                        \/ t = "L1Handler" /\ lists.l1_handler # <<>>}
    IN IF ~casm.accepted THEN ProgramError
       ELSE BuiltClass(
                [t \in declared |->
                    CASE t = "Constructor" -> convert_entry_points_v1(lists.constructor)
                      [] t = "External" -> convert_entry_points_v1(lists.external)
                      [] OTHER -> convert_entry_points_v1(lists.l1_handler)],
                casm.bytecode_length)

\* TryFrom<CasmContractClass> for ContractClassV1: the program is built
\* first (an error ends the conversion), then the three buckets are
\* inserted, each converted from the list of its type.
try_from(casm) ==
    IF ~casm.accepted THEN ProgramError
    ELSE LET lists == casm.entry_points_by_type
             with_constructor ==
                 HashMapInsert(<<>>, "Constructor",
                               convert_entry_points_v1(lists.constructor))
             with_external ==
                 HashMapInsert(with_constructor, "External",
                               convert_entry_points_v1(lists.external))
             entry_points_by_type ==
                 HashMapInsert(with_external, "L1Handler",
                               convert_entry_points_v1(lists.l1_handler))
         IN BuiltClass(entry_points_by_type, casm.bytecode_length)

CasmIdle ==
    /\ casm_class = [accepted |-> FALSE]
    /\ built = [tag |-> "Idle"]
    /\ built_entry_point = [tag |-> "Idle"]
    /\ built_selector = [tag |-> "Idle"]

CasmInit ==
    /\ casm_class \in CasmContractClasses
    /\ built = NotCalled
    /\ built_entry_point = NotCalled
    /\ built_selector = NotCalled

\* casm_contract_class.try_into()
TryFromCasm ==
    /\ built = NotCalled
    /\ built' = try_from(casm_class)
    /\ UNCHANGED <<casm_class, built_entry_point, built_selector, exceptCasm>>

\* get_entry_point on the class that was built, for any call.
GetEntryPointOfBuilt ==
    /\ built.tag = "Ok"
    /\ built_entry_point = NotCalled
    /\ \E c \in CallEntryPoint :
          built_entry_point' =
              [tag |-> "Called", call |-> c,
               result |-> get_entry_point(built.class.entry_points_by_type, c)]
    /\ UNCHANGED <<casm_class, built, built_selector, exceptCasm>>

\* constructor_selector on the class that was built.
ConstructorSelectorOfBuilt ==
    /\ built.tag = "Ok"
    /\ built_selector = NotCalled
    /\ built_selector' = constructor_selector(built.class)
    /\ UNCHANGED <<casm_class, built, built_entry_point, exceptCasm>>

CasmNext == TryFromCasm \/ GetEntryPointOfBuilt \/ ConstructorSelectorOfBuilt

(***************************************************************************)
(* The compact binary form of a contract class: Encode and Decode of       *)
(* ContractClassV0Inner and ContractClassV1Inner                           *)
(* (execution/contract_class.rs).                                          *)
(*                                                                         *)
(* A class is held as the value its equality compares: the program, the    *)
(* map from entry-point type to bucket, the map from hint key to hint.     *)
(* The order in which each hash map of the instance is iterated is held    *)
(* apart, in bucket_order and hint_order.                                  *)
(***************************************************************************)
\* Hints, named by their canonical serialised form (the key of the map).
HintKeys == {"alloc_segment", "test_less_than"}

\* Hint and its codec belong to another crate, which is not among the
\* sources.  A hint stands here as one byte that tells the hints of the model
\* apart; what the real codec writes and reads back is not modelled.
HintIndex(key) == IF key = "alloc_segment" THEN 0 ELSE 1

HintOf(key) == [hint |-> key]

\* EntryPointType in the order of its declaration, which is the order of
\* its Ord and the index the codec writes.
TypeIndex(type) ==
    CASE type = "Constructor" -> 0
      [] type = "External"    -> 1
      [] type = "L1Handler"   -> 2

\* Programs: of a Program the model keeps builtins_len() and data_len().
Programs == {[n_builtins |-> 0, bytecode_length |-> 0],
             [n_builtins |-> 2, bytecode_length |-> 5]}

\* The buckets of the classes encoded here: the entries in either order.
CodecEntryPoints == {ep \in EntryPointPool : ep.offset < 2}

BucketsV1 ==
    {b \in SeqsUpTo(CodecEntryPoints, 2) : \A i, j \in DOMAIN b : i # j => b[i] # b[j]}

WithoutBuiltins(bucket) ==
    [i \in DOMAIN bucket |-> [selector |-> bucket[i].selector, offset |-> bucket[i].offset]]

BucketsV0 == {WithoutBuiltins(b) : b \in BucketsV1}

CodecClasses ==
    [variant : {"V0"}, program : Programs,
     entry_points_by_type : UNION {[ts -> BucketsV0] : ts \in SUBSET EntryPointType},
     hints : {<<>>}]
    \cup
    [variant : {"V1"}, program : Programs,
     entry_points_by_type : UNION {[ts -> BucketsV1] : ts \in SUBSET EntryPointType},
     hints : {[k \in ks |-> HintOf(k)] : ks \in SUBSET HintKeys}]

\* The (key, value) pairs of a hash map as into_iter() gives them.
into_iter(map, order) == [i \in DOMAIN order |-> [key |-> order[i], value |-> map[order[i]]]]

\* StarkFelt: 32 bytes, big endian.
felt_encode(v) == Reverse(LeBytes(v, 32))

felt_decode(bytes) ==
    IF Len(bytes) < 32 THEN ReadError
    ELSE Read(FromLeBytes(Reverse(SubSeq(bytes, 1, 32))), Drop(bytes, 32))

\* Program and its codec belong to the VM's crate, which is not among the
\* sources.  The bytes written here stand for the program's encoding and carry
\* the two lengths the model keeps of a program; what the real codec writes
\* and reads back is not modelled.
program_encode(program) ==
    compact_encode(program.n_builtins) \o compact_encode(program.bytecode_length)

program_decode(bytes) ==
    LET n_builtins == compact_decode(bytes)
    IN IF ~n_builtins.ok THEN ReadError
       ELSE LET bytecode_length == compact_decode(n_builtins.rest)
            IN IF ~bytecode_length.ok THEN ReadError
               ELSE Read([n_builtins |-> n_builtins.val,
                          bytecode_length |-> bytecode_length.val],
                         bytecode_length.rest)

\* The derived Encode of the element types, and Vec<T>::encode: the compact
\* length, then the elements.
RECURSIVE encode_vec(_, _), encode_elements(_, _), encode_element(_, _)
encode_element(kind, x) ==
    CASE kind = "String" -> string_encode(x)
      [] kind = "EntryPoint" -> felt_encode(x.selector) \o u64_encode(x.offset)
      [] kind = "EntryPointV1" ->
            felt_encode(x.selector) \o u64_encode(x.offset)
                \o encode_vec("String", x.builtins)
      [] kind = "(EntryPointType, Vec<EntryPoint>)" ->
            <<TypeIndex(x.key)>> \o encode_vec("EntryPoint", x.value)
      [] kind = "(EntryPointType, Vec<EntryPointV1>)" ->
            <<TypeIndex(x.key)>> \o encode_vec("EntryPointV1", x.value)
      [] kind = "(String, Hint)" ->
            string_encode(x.key) \o <<HintIndex(x.value.hint)>>

encode_elements(kind, items) ==
    IF items = <<>> THEN <<>>
    ELSE encode_element(kind, items[1]) \o encode_elements(kind, Tail(items))

encode_vec(kind, items) == compact_encode(Len(items)) \o encode_elements(kind, items)

\* .collect::<BTreeMap<EntryPointType, Vec<_>>>(): the pairs by ascending key.
collect_into_btree(pairs) ==
    SortSeq(pairs, LAMBDA a, b : TypeIndex(a.key) < TypeIndex(b.key))

\* Encode for ContractClassV0Inner.
ContractClassV0Inner_encode(val, buckets_in) ==
    LET entry_point_btree ==
            collect_into_btree(into_iter(val.entry_points_by_type, buckets_in))
    IN program_encode(val.program)
           \o encode_vec("(EntryPointType, Vec<EntryPoint>)", entry_point_btree)

\* Encode for ContractClassV1Inner.
ContractClassV1Inner_encode(val, buckets_in, hints_in) ==
    LET entry_point_btree ==
            collect_into_btree(into_iter(val.entry_points_by_type, buckets_in))
        hints == into_iter(val.hints, hints_in)
    IN program_encode(val.program)
           \o encode_vec("(EntryPointType, Vec<EntryPointV1>)", entry_point_btree)
           \o encode_vec("(String, Hint)", hints)

\* The derived Encode of the enum ContractClass: the variant's index first.
ContractClass_encode(c, buckets_in, hints_in) ==
    IF c.variant = "V0" THEN <<0>> \o ContractClassV0Inner_encode(c, buckets_in)
    ELSE <<1>> \o ContractClassV1Inner_encode(c, buckets_in, hints_in)

\* The ? of a decoder: the failure of a read is the failure of the whole,
\* and what was read goes on to the rest of the decoder.
AndThen(read, rest_of_decoder(_)) ==
    IF read.ok THEN rest_of_decoder(read) ELSE ReadError

\* The index byte of a unit enum, index giving the byte of every variant.
enum_decode(bytes, index) ==
    IF bytes = <<>> \/ \A v \in DOMAIN index : index[v] # bytes[1] THEN ReadError
    ELSE Read(CHOOSE v \in DOMAIN index : index[v] = bytes[1], Tail(bytes))

\* The derived Decode of the element types, and Vec<T>::decode.
RECURSIVE decode_vec(_, _), decode_elements(_, _, _), decode_element(_, _)
decode_element(kind, bytes) ==
    CASE kind = "String" -> string_decode(bytes)
      [] kind = "EntryPoint" ->
            AndThen(felt_decode(bytes), LAMBDA selector :
            AndThen(u64_decode(selector.rest), LAMBDA offset :
            Read([selector |-> selector.val, offset |-> offset.val], offset.rest)))
      [] kind = "EntryPointV1" ->
            AndThen(felt_decode(bytes), LAMBDA selector :
            AndThen(u64_decode(selector.rest), LAMBDA offset :
            AndThen(decode_vec("String", offset.rest), LAMBDA builtins :
            Read([selector |-> selector.val, offset |-> offset.val,
                  builtins |-> builtins.val],
                 builtins.rest))))
      [] kind = "(EntryPointType, Vec<EntryPoint>)" ->
            AndThen(enum_decode(bytes, [t \in EntryPointType |-> TypeIndex(t)]), LAMBDA type :
            AndThen(decode_vec("EntryPoint", type.rest), LAMBDA bucket :
            Read([key |-> type.val, value |-> bucket.val], bucket.rest)))
      [] kind = "(EntryPointType, Vec<EntryPointV1>)" ->
            AndThen(enum_decode(bytes, [t \in EntryPointType |-> TypeIndex(t)]), LAMBDA type :
            AndThen(decode_vec("EntryPointV1", type.rest), LAMBDA bucket :
            Read([key |-> type.val, value |-> bucket.val], bucket.rest)))
      [] kind = "(String, Hint)" ->
            AndThen(string_decode(bytes), LAMBDA key :
            AndThen(enum_decode(key.rest, [k \in HintKeys |-> HintIndex(k)]), LAMBDA hint :
            Read([key |-> key.val, value |-> HintOf(hint.val)], hint.rest)))

decode_elements(kind, bytes, n) ==
    IF n = 0 THEN Read(<<>>, bytes)
    ELSE AndThen(decode_element(kind, bytes), LAMBDA first :
         AndThen(decode_elements(kind, first.rest, n - 1), LAMBDA others :
         Read(<<first.val>> \o others.val, others.rest)))

decode_vec(kind, bytes) ==
    AndThen(compact_decode(bytes), LAMBDA len : decode_elements(kind, len.rest, len.val))

\* The (key, value) pairs of a BTreeMap as into_iter() gives them.
btree_into_iter(map) ==
    collect_into_btree(into_iter(map, CHOOSE o \in Orders(DOMAIN map) : TRUE))

\* <BTreeMap<_, _>>::from_iter and <HashMap<_, _>>::from_iter: of the pairs
\* with one key the last one stays.
from_iter(pairs) ==
    [k \in {pairs[i].key : i \in DOMAIN pairs} |->
        LET last == CHOOSE i \in DOMAIN pairs :
                        /\ pairs[i].key = k
                        /\ \A j \in DOMAIN pairs : pairs[j].key = k => j <= i
        IN pairs[last].value]

\* Decode for ContractClassV0Inner.
ContractClassV0Inner_decode(input) ==
    AndThen(program_decode(input), LAMBDA program :
    AndThen(decode_vec("(EntryPointType, Vec<EntryPoint>)", program.rest), LAMBDA buckets :
    LET entry_point_btree == from_iter(buckets.val)
        entry_points_by_type == from_iter(btree_into_iter(entry_point_btree))
    IN Read([variant |-> "V0", program |-> program.val,
             entry_points_by_type |-> entry_points_by_type, hints |-> <<>>],
            buckets.rest)))

\* Decode for ContractClassV1Inner.
ContractClassV1Inner_decode(input) ==
    AndThen(program_decode(input), LAMBDA program :
    AndThen(decode_vec("(EntryPointType, Vec<EntryPointV1>)", program.rest), LAMBDA buckets :
    AndThen(decode_vec("(String, Hint)", buckets.rest), LAMBDA pairs :
    LET entry_point_btree == from_iter(buckets.val)
        entry_points_by_type == from_iter(btree_into_iter(entry_point_btree))
        hints == from_iter(pairs.val)
    IN Read([variant |-> "V1", program |-> program.val,
             entry_points_by_type |-> entry_points_by_type, hints |-> hints],
            pairs.rest))))

\* The derived Decode of the enum ContractClass.
ContractClass_decode(input) ==
    IF input = <<>> \/ input[1] \notin {0, 1} THEN DecodeFailed
    ELSE LET inner == IF input[1] = 0 THEN ContractClassV0Inner_decode(Tail(input))
                      ELSE ContractClassV1Inner_decode(Tail(input))
         IN IF inner.ok THEN Decoded(inner.val) ELSE DecodeFailed

\* ---- the JSON form (serde) ----

JsonObject(members) == [json |-> "object", members |-> members]

JsonArray(items) == [json |-> "array", items |-> items]

\* A JSON string and a JSON number.
JsonString(v) == [json |-> "string", v |-> v]

JsonNumber(v) == [json |-> "number", v |-> v]

Member(name, value) == [name |-> name, value |-> value]

JsonError == [json |-> "error"]

\* The names serde gives the variants of EntryPointType.
TypeName(type) ==
    CASE type = "Constructor" -> "CONSTRUCTOR"
      [] type = "External"    -> "EXTERNAL"
      [] type = "L1Handler"   -> "L1_HANDLER"

\* serde_program::serialize: the program as a ProgramJson.  parse_program and
\* parse_program_json are the VM's and not among the sources: the document
\* written here stands for the ProgramJson and carries the two lengths the
\* model keeps of a program, one item each.
serialize(program) ==
    JsonObject(<<Member("builtins",
                        JsonArray([i \in 1..program.n_builtins |-> JsonString("builtin")])),
                 Member("data",
                        JsonArray([i \in 1..program.bytecode_length |-> JsonString("0x0")]))>>)

\* The derived Deserialize of a struct: from an object the fields by name, in
\* any order, members of other names ignored, a field missing or given twice
\* refused; from an array the fields by position, all of them and no more.
struct_fields(doc, names) ==
    IF doc.json = "object"
    THEN LET named(name) == {i \in DOMAIN doc.members : doc.members[i].name = name}
         IN IF \E k \in DOMAIN names : Cardinality(named(names[k])) # 1
            THEN DecodeFailed
            ELSE Decoded([name \in {names[k] : k \in DOMAIN names} |->
                             doc.members[CHOOSE i \in named(name) : TRUE].value])
    ELSE IF doc.json = "array" /\ Len(doc.items) = Len(names)
    THEN Decoded([name \in {names[k] : k \in DOMAIN names} |->
                     doc.items[CHOOSE k \in DOMAIN names : names[k] = name]])
    ELSE DecodeFailed

\* serde_program::deserialize: the ProgramJson as a program.
deserialize(doc) ==
    LET fields == struct_fields(doc, <<"builtins", "data">>)
    IN IF fields.tag # "Ok" THEN JsonError
       ELSE IF fields.val["builtins"].json # "array" \/ fields.val["data"].json # "array"
       THEN JsonError
       ELSE [n_builtins |-> Len(fields.val["builtins"].items),
             bytecode_length |-> Len(fields.val["data"].items)]

entry_point_to_json(variant, ep) ==
    JsonObject(<<Member("selector", JsonNumber(ep.selector)),
                 Member("offset", JsonNumber(ep.offset))>>
               \o IF variant = "V1"
                  THEN <<Member("builtins",
                                JsonArray([j \in DOMAIN ep.builtins |->
                                              JsonString(ep.builtins[j])]))>>
                  ELSE <<>>)

\* The derived Deserialize of EntryPoint and EntryPointV1.
entry_point_from_json(variant, doc) ==
    LET fields == struct_fields(doc, IF variant = "V1"
                                     THEN <<"selector", "offset", "builtins">>
                                     ELSE <<"selector", "offset">>)
    IN IF fields.tag # "Ok" THEN DecodeFailed
       ELSE IF fields.val["selector"].json # "number" \/ fields.val["offset"].json # "number"
       THEN DecodeFailed
       ELSE IF variant # "V1"
       THEN Decoded([selector |-> fields.val["selector"].v,
                     offset |-> fields.val["offset"].v])
       ELSE IF fields.val["builtins"].json # "array"
       THEN DecodeFailed
       ELSE IF \E j \in DOMAIN fields.val["builtins"].items :
                  fields.val["builtins"].items[j].json # "string"
       THEN DecodeFailed
       ELSE Decoded([selector |-> fields.val["selector"].v,
                     offset |-> fields.val["offset"].v,
                     builtins |-> [j \in DOMAIN fields.val["builtins"].items |->
                                      fields.val["builtins"].items[j].v]])

\* The derived Serialize: the fields in the order of their declaration, a
\* hash map as an object whose members come in the order of iteration.
to_json(c, buckets_in, hints_in) ==
    LET buckets == into_iter(c.entry_points_by_type, buckets_in)
        hints == into_iter(c.hints, hints_in)
        entry_points_by_type ==
            JsonObject([i \in DOMAIN buckets |->
                Member(TypeName(buckets[i].key),
                       JsonArray([j \in DOMAIN buckets[i].value |->
                                     entry_point_to_json(c.variant, buckets[i].value[j])]))])
    IN JsonObject(
           <<Member("program", serialize(c.program)),
             Member("entry_points_by_type", entry_points_by_type)>>
           \o IF c.variant = "V1"
              THEN <<Member("hints",
                            JsonObject([i \in DOMAIN hints |->
                                Member(hints[i].key, JsonString(hints[i].value.hint))]))>>
              ELSE <<>>)

\* The derived Deserialize of the variant asked for: the fields by name, a
\* hash map from the members of its object.
from_json(variant, doc) ==
    LET fields == struct_fields(doc, IF variant = "V1"
                                     THEN <<"program", "entry_points_by_type", "hints">>
                                     ELSE <<"program", "entry_points_by_type">>)
    IN IF fields.tag # "Ok" THEN DecodeFailed
       ELSE LET program == deserialize(fields.val["program"])
                buckets == fields.val["entry_points_by_type"]
                hints == IF variant = "V1" THEN fields.val["hints"] ELSE JsonObject(<<>>)
                readable ==
                    /\ program # JsonError
                    /\ buckets.json = "object"
                    /\ \A i \in DOMAIN buckets.members :
                          /\ \E t \in EntryPointType : TypeName(t) = buckets.members[i].name
                          /\ buckets.members[i].value.json = "array"
                          /\ \A j \in DOMAIN buckets.members[i].value.items :
                                entry_point_from_json(
                                    variant, buckets.members[i].value.items[j]).tag = "Ok"
                    /\ hints.json = "object"
                    /\ \A i \in DOMAIN hints.members : hints.members[i].value.json = "string"
            IN IF ~readable THEN DecodeFailed
               ELSE Decoded(
                   [variant |-> variant, program |-> program,
                    entry_points_by_type |->
                        from_iter([i \in DOMAIN buckets.members |->
                            [key |-> CHOOSE t \in EntryPointType :
                                        TypeName(t) = buckets.members[i].name,
                             value |-> [j \in DOMAIN buckets.members[i].value.items |->
                                           entry_point_from_json(
                                               variant,
                                               buckets.members[i].value.items[j]).val]]]),
                    hints |->
                        from_iter([i \in DOMAIN hints.members |->
                            [key |-> hints.members[i].name,
                             value |-> HintOf(hints.members[i].value.v)]])])

CodecIdle ==
    /\ codec_class = [variant |-> "None"]
    /\ bucket_order = <<>>
    /\ hint_order = <<>>
    /\ class_encoded = [tag |-> "Idle"]
    /\ class_decoded = [tag |-> "Idle"]
    /\ class_json = [tag |-> "Idle"]
    /\ class_from_json = [tag |-> "Idle"]

\* A class in memory: its value, and an order of iteration for each of its
\* hash maps.
CodecInit ==
    /\ codec_class \in CodecClasses
    /\ bucket_order \in Orders(DOMAIN codec_class.entry_points_by_type)
    /\ hint_order \in Orders(DOMAIN codec_class.hints)
    /\ class_encoded = NotCalled
    /\ class_decoded = NotCalled
    /\ class_json = NotCalled
    /\ class_from_json = NotCalled

\* contract.encode(), contract a ContractClassV0 or a ContractClassV1: the
\* derived Encode of a struct around one Arc writes what the inner value
\* writes.
EncodeClass ==
    /\ class_encoded = NotCalled
    /\ class_encoded' =
          [tag |-> "Bytes", type |-> "ContractClass" \o codec_class.variant,
           val |-> IF codec_class.variant = "V0"
                   THEN ContractClassV0Inner_encode(codec_class, bucket_order)
                   ELSE ContractClassV1Inner_encode(codec_class, bucket_order, hint_order)]
    /\ UNCHANGED <<codec_class, bucket_order, hint_order, class_decoded, class_json,
                   class_from_json, exceptCodec>>

\* ContractClassV0::decode(&mut &encoded[..]) or ContractClassV1::decode(..),
\* the decoder being that of the type encoded.
DecodeClass ==
    /\ class_encoded.tag = "Bytes"
    /\ class_encoded.type # "ContractClass"
    /\ class_decoded = NotCalled
    /\ LET inner == IF class_encoded.type = "ContractClassV0"
                    THEN ContractClassV0Inner_decode(class_encoded.val)
                    ELSE ContractClassV1Inner_decode(class_encoded.val)
       IN class_decoded' = IF inner.ok THEN Decoded(inner.val) ELSE DecodeFailed
    /\ UNCHANGED <<codec_class, bucket_order, hint_order, class_encoded, class_json,
                   class_from_json, exceptCodec>>

\* ContractClass::from(contract).encode(): the class as a value of the enum.
EncodeContractClass ==
    /\ class_encoded = NotCalled
    /\ class_encoded' =
          [tag |-> "Bytes", type |-> "ContractClass",
           val |-> ContractClass_encode(codec_class, bucket_order, hint_order)]
    /\ UNCHANGED <<codec_class, bucket_order, hint_order, class_decoded, class_json,
                   class_from_json, exceptCodec>>

\* ContractClass::decode(&mut &encoded[..])
DecodeContractClass ==
    /\ class_encoded.tag = "Bytes"
    /\ class_encoded.type = "ContractClass"
    /\ class_decoded = NotCalled
    /\ class_decoded' = ContractClass_decode(class_encoded.val)
    /\ UNCHANGED <<codec_class, bucket_order, hint_order, class_encoded, class_json,
                   class_from_json, exceptCodec>>

\* serde_json::to_vec(&contract)
ToJson ==
    /\ class_json = NotCalled
    /\ class_json' =
          [tag |-> "Json", val |-> to_json(codec_class, bucket_order, hint_order)]
    /\ UNCHANGED <<codec_class, bucket_order, hint_order, class_encoded, class_decoded,
                   class_from_json, exceptCodec>>

\* serde_json::from_slice(..), into the variant of the class
FromJson ==
    /\ class_json.tag = "Json"
    /\ class_from_json = NotCalled
    /\ class_from_json' = from_json(codec_class.variant, class_json.val)
    /\ UNCHANGED <<codec_class, bucket_order, hint_order, class_encoded, class_decoded,
                   class_json, exceptCodec>>

CodecNext ==
    \/ EncodeClass
    \/ DecodeClass
    \/ EncodeContractClass
    \/ DecodeContractClass
    \/ ToJson
    \/ FromJson

(***************************************************************************)
(* The specifications.                                                     *)
(***************************************************************************)

LateIdle == MapIdle /\ CacheIdle /\ CasmIdle /\ CodecIdle

ExtIdle == TxIdle /\ StorIdle /\ ExecIdle /\ ClassIdle /\ WordIdle /\ LateIdle

InitEntry == EntryInit /\ FeeIdle /\ IterIdle /\ ExtIdle

EntryNext == GetEntryPoint

SpecEntry == InitEntry /\ [][EntryNext]_vars

InitFee == EntryIdle /\ FeeInit /\ IterIdle /\ ExtIdle

SpecFee == InitFee /\ [][FeeNext]_vars

InitIter == EntryIdle /\ FeeIdle /\ IterInit /\ ExtIdle

IterNext == IterNextSome \/ IterNextNone

SpecIter == InitIter /\ [][IterNext]_vars

CoreIdle == EntryIdle /\ FeeIdle /\ IterIdle

InitTx ==
    CoreIdle /\ TxInit /\ StorIdle /\ ExecIdle /\ ClassIdle /\ WordIdle /\ LateIdle

SpecTx == InitTx /\ [][TxNext]_vars

InitStor ==
    CoreIdle /\ TxIdle /\ StorInit /\ ExecIdle /\ ClassIdle /\ WordIdle /\ LateIdle

SpecStor == InitStor /\ [][StorNext]_vars

InitExec ==
    CoreIdle /\ TxIdle /\ StorIdle /\ ExecInit /\ ClassIdle /\ WordIdle /\ LateIdle

SpecExec == InitExec /\ [][ExecNext]_vars

InitClass ==
    CoreIdle /\ TxIdle /\ StorIdle /\ ExecIdle /\ ClassInit /\ WordIdle /\ LateIdle

SpecClass == InitClass /\ [][ClassNext]_vars

InitWord ==
    CoreIdle /\ TxIdle /\ StorIdle /\ ExecIdle /\ ClassIdle /\ WordInit /\ LateIdle

SpecWord == InitWord /\ [][WordNext]_vars

InitV1Estimate ==
    CoreIdle /\ TxIdle /\ StorIdle /\ ExecIdle /\ V1ClassInit /\ WordIdle /\ LateIdle

V1EstimateNext == EstimateV1

SpecV1Estimate == InitV1Estimate /\ [][V1EstimateNext]_vars

EarlyIdle ==
    CoreIdle /\ TxIdle /\ StorIdle /\ ExecIdle /\ ClassIdle /\ WordIdle

InitMap == EarlyIdle /\ MapInit /\ CacheIdle /\ CasmIdle /\ CodecIdle

SpecMap == InitMap /\ [][MapNext]_vars

InitCache == EarlyIdle /\ MapIdle /\ CacheInit /\ CasmIdle /\ CodecIdle

SpecCache == InitCache /\ [][CacheNext]_vars

InitCasm == EarlyIdle /\ MapIdle /\ CacheIdle /\ CasmInit /\ CodecIdle

SpecCasm == InitCasm /\ [][CasmNext]_vars

InitCodec == EarlyIdle /\ MapIdle /\ CacheIdle /\ CasmIdle /\ CodecInit

SpecCodec == InitCodec /\ [][CodecNext]_vars

Init == InitEntry \/ InitFee \/ InitIter \/ InitTx \/ InitStor \/ InitExec
        \/ InitClass \/ InitWord \/ InitV1Estimate
        \/ InitMap
        \/ InitCache
        \/ InitCasm
        \/ InitCodec

Next == EntryNext \/ FeeNext \/ IterNext \/ TxNext \/ StorNext \/ ExecNext
        \/ ClassNext \/ WordNext \/ V1EstimateNext
        \/ MapNext
        \/ CacheNext
        \/ CasmNext
        \/ CodecNext

Spec == Init /\ [][Next]_vars


(***************************************************************************)
(* Entry-point resolution: the claims.                                     *)
(***************************************************************************)

Resolved == ep_result.tag \in {"Ok", "Err", "Panic"}

CanonicalCall ==
    call.entry_point_type = "Constructor"
        => call.entry_point_selector = selector_from_name(CONSTRUCTOR_ENTRY_POINT_NAME)

\* The places, in the bucket of the call's type, of the entries that carry the
\* call's selector; none when the class has no such bucket.
Matches ==
    IF call.entry_point_type \in DOMAIN class
    THEN {i \in DOMAIN class[call.entry_point_type] :
             class[call.entry_point_type][i].selector = call.entry_point_selector}
    ELSE {}

ByMatchCount ==
    /\ Matches = {} =>
          ep_result = [tag |-> "Err", error |-> "EntryPointNotFound",
                       selector |-> call.entry_point_selector]
    /\ Cardinality(Matches) = 1 =>
          ep_result = [tag |-> "Ok",
                       entry_point |-> class[call.entry_point_type][CHOOSE i \in Matches : TRUE]]
    /\ Cardinality(Matches) >= 2 =>
          ep_result = [tag |-> "Err", error |-> "DuplicatedEntryPointSelector",
                       selector |-> call.entry_point_selector,
                       typ |-> call.entry_point_type]

\* C1: for every class, type T and selector S (S canonical when T is
\* Constructor), get_entry_point answers by the number of entries of the T
\* bucket that carry S: none gives EntryPointNotFound(S), one gives Ok with
\* that entry, two or more give DuplicatedEntryPointSelector{S, T}.
C1_ResolvedByMatchCount == (Resolved /\ CanonicalCall) => ByMatchCount

\* What holds of get_entry_point: the same, on a class that has a bucket for
\* the call's type.
ResolvedByMatchCountInBucket ==
    (Resolved /\ CanonicalCall /\ call.entry_point_type \in DOMAIN class) => ByMatchCount

\* C2: a Constructor call whose selector is not the canonical constructor
\* selector gets InvalidConstructorEntryPointName, whatever the class holds.
C2_InvalidConstructorName ==
    (Resolved /\ ~CanonicalCall)
        => ep_result = [tag |-> "Err", error |-> "InvalidConstructorEntryPointName"]

\* C2's case: the error is returned on a class with no Constructor bucket.
C2_Witness ==
    /\ ep_result = [tag |-> "Err", error |-> "InvalidConstructorEntryPointName"]
    /\ ~CanonicalCall
    /\ "Constructor" \notin DOMAIN class

(***************************************************************************)
(* Fee accounting: the claims.                                             *)
(***************************************************************************)

HasL1Gas == GAS_USAGE \in Keys(resources)

\* The usage the caller's mapping records for a key (0 when it has none).
UsageOf(key) ==
    IF \E i \in DOMAIN resources : resources[i].k = key
    THEN (CHOOSE e \in Range(resources) : e.k = key).v
    ELSE 0

AllPriced == (Keys(resources) \ {GAS_USAGE}) \subseteq DOMAIN vm_resource_fee_cost

SetMax(S) == CHOOSE x \in S : \A y \in S : y <= x

\* The largest usage * price over the fee-cost table, as an exact number of
\* inner units (0 for an empty table).
ExactWeightedMax ==
    SetMax({UsageOf(k) * vm_resource_fee_cost[k] : k \in DOMAIN vm_resource_fee_cost}
           \cup {0})

\* ceil(l1_gas_usage + weighted max) in whole gas units, computed exactly.
ExactGasUnits == (UsageOf(GAS_USAGE) * DIV + l1_gas_by_vm_usage.val + DIV - 1) \div DIV

\* min(u128::MAX, units * price).
SaturatingProduct(units, price) ==
    IF price # 0 /\ units > U128_MAX \div price THEN U128_MAX ELSE units * price

\* C3: with l1_gas_usage present and every other key priced, calculate_tx_fee
\* returns min(u128::MAX, ceil(l1_gas_usage + weighted max) * gas_price).
C3_FeeIsCeilTimesGasPrice ==
    (pc \in Terminal /\ HasL1Gas /\ AllPriced /\ l1_gas_by_vm_usage.tag = "Ok")
        => fee = Ok(SaturatingProduct(ExactGasUnits, gas_price))

\* What holds of calculate_tx_fee: the same, when the rounded-up total fits
\* the fixed-point type.
FeeIsCeilTimesGasPriceWhenRepresentable ==
    (/\ pc \in Terminal /\ HasL1Gas /\ AllPriced /\ l1_gas_by_vm_usage.tag = "Ok"
     /\ ExactGasUnits * DIV <= U128_MAX)
        => fee = Ok(SaturatingProduct(ExactGasUnits, gas_price))

\* The worked example: {steps: 0.02, pedersen: 0.01} and
\* {l1_gas_usage: 100, steps: 5000, pedersen: 200} give 200 gas units.
FeeExample ==
    (/\ pc = "fee_finalized"
     /\ DIV = 100
     /\ vm_resource_fee_cost = (N_STEPS_RESOURCE :> 2) @@ (PEDERSEN :> 1)
     /\ MapEq(resources, <<[k |-> GAS_USAGE, v |-> 100], [k |-> N_STEPS_RESOURCE, v |-> 5000],
                           [k |-> PEDERSEN, v |-> 200]>>))
        => /\ l1_gas_by_vm_usage = Ok(100 * DIV)
           /\ fee = Ok(SaturatingProduct(200, gas_price))

\* C4: a key of the usage mapping (l1_gas_usage apart) that the fee-cost table
\* does not price makes calculate_l1_gas_by_vm_usage and calculate_tx_fee
\* return CairoResourcesNotContainedInFeeCosts, and no fee is produced.
C4_UnpricedResourceIsAnError ==
    (HasL1Gas /\ ~AllPriced)
        => /\ fee.tag # "Ok"
           /\ pc \in {"resources_collected", "l1_gas_extracted", "failed"}
           /\ pc = "failed" =>
                 /\ l1_gas_by_vm_usage = Err("CairoResourcesNotContainedInFeeCosts")
                 /\ fee = Err("CairoResourcesNotContainedInFeeCosts")

\* C4's case: the error is returned for an unpriced resource whose usage is 0.
C4_Witness ==
    /\ pc = "failed"
    /\ fee = Err("CairoResourcesNotContainedInFeeCosts")
    /\ HasL1Gas
    /\ \E i \in DOMAIN resources :
          /\ resources[i].k \notin DOMAIN vm_resource_fee_cost \cup {GAS_USAGE}
          /\ resources[i].v = 0

\* C5: with every usage key priced, calculate_l1_gas_by_vm_usage returns the
\* largest usage * price over the fee-cost table (absent usage counting 0).
C5_WeightedMaxIsLargestCost ==
    (pc \notin {"resources_collected", "l1_gas_extracted"} /\ HasL1Gas /\ AllPriced)
        => l1_gas_by_vm_usage = Ok(ExactWeightedMax)

\* What holds of calculate_l1_gas_by_vm_usage: when it returns a value, the
\* value is that maximum, in whatever order the table is iterated.
WeightedMaxIsLargestCostWhenReturned ==
    l1_gas_by_vm_usage.tag = "Ok" => l1_gas_by_vm_usage.val = ExactWeightedMax

\* C6: the extraction returns the mapping's l1_gas_usage value and the mapping
\* without that key, every other key with its value; putting the key back
\* gives a mapping equal to the one passed in.
C6_ExtractIsInverseOfInsert ==
    (HasL1Gas /\ pc # "resources_collected")
        => /\ l1_gas_usage = UsageOf(GAS_USAGE)
           /\ Keys(vm_resources) = Keys(resources) \ {GAS_USAGE}
           /\ Len(vm_resources) = Len(resources) - 1
           /\ \A i \in DOMAIN vm_resources : vm_resources[i].v = UsageOf(vm_resources[i].k)
           /\ MapEq(Insert(vm_resources, GAS_USAGE, l1_gas_usage), resources)

\* C6's case: a mapping of three keys with l1_gas_usage in the middle.
C6_Witness ==
    /\ pc = "l1_gas_extracted"
    /\ Len(resources) = 3
    /\ resources[2] = [k |-> GAS_USAGE, v |-> 100]
    /\ Len(vm_resources) = 2

\* C7: without the key l1_gas_usage the extraction aborts; no usage, no error
\* value and no fee come back, and the fee-cost table is never consulted.
C7_MissingL1GasAborts ==
    (~HasL1Gas /\ pc # "resources_collected")
        => /\ pc = "panicked"
           /\ fee.tag = "Panic"
           /\ trail = <<"resources_collected", "panicked">>
           /\ l1_gas_by_vm_usage = NoneYet

\* C7's case: the mapping also holds a resource the table does not price.
C7_Witness ==
    /\ pc = "panicked"
    /\ ~HasL1Gas
    /\ ~AllPriced
    /\ fee.tag = "Panic"

\* C8: when a usage * price product or the sum of l1_gas_usage and the
\* weighted maximum does not fit the fixed-point type, the fee computation
\* ends with the error FixedPointConversion.
C8_UnrepresentableIsAnError ==
    (/\ pc \in Terminal /\ HasL1Gas /\ AllPriced
     /\ \/ ExactWeightedMax > U128_MAX
        \/ UsageOf(GAS_USAGE) * DIV + ExactWeightedMax > U128_MAX)
        => fee = Err("FixedPointConversion")

AllowedTrails ==
    { <<"resources_collected">>,
      <<"resources_collected", "panicked">>,
      <<"resources_collected", "l1_gas_extracted">>,
      <<"resources_collected", "l1_gas_extracted", "failed">>,
      <<"resources_collected", "l1_gas_extracted", "panicked">>,
      <<"resources_collected", "l1_gas_extracted", "weighted_max_computed">>,
      <<"resources_collected", "l1_gas_extracted", "weighted_max_computed", "failed">>,
      <<"resources_collected", "l1_gas_extracted", "weighted_max_computed", "panicked">>,
      <<"resources_collected", "l1_gas_extracted", "weighted_max_computed",
        "fee_finalized">> }

\* C9: fee accounting goes through resources collected, L1-gas extracted,
\* weighted-max computed and fee finalized in that order, each at most once;
\* a failure ends it, and a fee exists only after the three stages before it
\* succeeded.
C9_StagesAreLinear ==
    /\ trail \in AllowedTrails
    /\ pc = trail[Len(trail)]
    /\ (fee.tag = "Ok") <=> (pc = "fee_finalized")
    /\ pc \in {"l1_gas_extracted", "weighted_max_computed", "fee_finalized"} => HasL1Gas
    /\ pc \in {"weighted_max_computed", "fee_finalized"} => l1_gas_by_vm_usage.tag = "Ok"
    /\ pc \in {"failed", "panicked"} => fee.tag \in {"Err", "Panic"}

\* C9's case: a computation that failed at the second stage, after the first.
C9_Witness ==
    /\ trail = <<"resources_collected", "l1_gas_extracted", "failed">>
    /\ fee.tag = "Err"

(***************************************************************************)
(* CallInfo traversal: the claims.                                         *)
(***************************************************************************)

\* C10: the iteration yields every node once, in depth-first pre-order, and
\* then ends; the tree of test_call_info_iteration yields the markers
\* 0, 1, 2, 3.
C10_IterationIsPreOrder ==
    /\ \A i, j \in DOMAIN yielded : i # j => yielded[i] # yielded[j]
    /\ \A i \in DOMAIN yielded : yielded[i] = PreOrderOf(inner_calls, 1)[i]
    /\ (ended /\ inner_calls # <<>>) =>
          /\ yielded = PreOrderOf(inner_calls, 1)
          /\ Range(yielded) = DOMAIN inner_calls
          /\ call_infos = <<>>
    /\ (ended /\ inner_calls = TestInnerCalls /\ calldata = TestCalldata) =>
          [i \in DOMAIN yielded |-> calldata[yielded[i]]] = <<0, 1, 2, 3>>

\* C10's case: the traversal of the test's tree has ended.
C10_Witness ==
    /\ ended
    /\ inner_calls = TestInnerCalls
    /\ calldata = TestCalldata
    /\ [i \in DOMAIN yielded |-> calldata[yielded[i]]] = <<0, 1, 2, 3>>

(***************************************************************************)
(* TransactionExecutionInfo: the claims.                                   *)
(***************************************************************************)

\* The class hashes of all nodes of an optional call tree; none for an absent one.
NodeHashes(call_info) ==
    IF call_info.tag = "Some" THEN Range(call_info.class_hash) ELSE {}

\* C11: get_executed_class_hashes() is the set union, over the call infos
\* among validate, execute and fee transfer that are present, of the class
\* hashes of every node of that tree; absent call infos contribute nothing
\* and a hash executed in several trees appears once.
C11_ExecutedClassHashesIsUnion ==
    executed_class_hashes.tag = "Returned" =>
        executed_class_hashes.val =
            NodeHashes(tx_info.validate_call_info)
            \cup NodeHashes(tx_info.execute_call_info)
            \cup NodeHashes(tx_info.fee_transfer_call_info)

\* The call has returned for a transaction without validate call info whose
\* execute and fee-transfer trees share a class hash and together hold two.
C11_Witness ==
    /\ executed_class_hashes.tag = "Returned"
    /\ tx_info.validate_call_info.tag = "None"
    /\ tx_info.execute_call_info.tag = "Some"
    /\ tx_info.fee_transfer_call_info.tag = "Some"
    /\ NodeHashes(tx_info.execute_call_info) \cap NodeHashes(tx_info.fee_transfer_call_info) # {}
    /\ ~(NodeHashes(tx_info.fee_transfer_call_info) \subseteq NodeHashes(tx_info.execute_call_info))
    /\ Cardinality(executed_class_hashes.val) = 2

\* All three call infos absent: the empty set is returned.
ExecutedClassHashesEmptyWhenAllAbsent ==
    (/\ executed_class_hashes.tag = "Returned"
     /\ non_optional_call_infos(tx_info) = <<>>)
        => executed_class_hashes.val = {}

\* C12: is_reverted() is true if and only if revert_error is present,
\* whatever the call infos, the fee and the resources are.
C12_RevertedIffRevertError ==
    reverted.tag = "Returned" =>
        (reverted.val <=> tx_info.revert_error # "None")

\* is_reverted has answered true for a transaction that carries a non-zero
\* actual_fee and a fee-transfer call info.
C12_Witness ==
    /\ reverted.tag = "Returned"
    /\ reverted.val
    /\ tx_info.actual_fee > 0
    /\ tx_info.fee_transfer_call_info.tag = "Some"

(***************************************************************************)
(* Storage access records: the claims.                                     *)
(***************************************************************************)

\* The value each syscall of the log finds under its key, in execution order.
RECURSIVE ValuesFound(_, _)
ValuesFound(st, log) ==
    IF log = <<>> THEN <<>>
    ELSE LET first == Head(log)
             st_after == IF first.op = "storage_write"
                         THEN [st EXCEPT ![first.key] = first.value]
                         ELSE st
         IN <<st[first.key]>> \o ValuesFound(st_after, Tail(log))

\* C13: storage_read_values is the sequence, in execution order, of the
\* values read by the call, a storage write first recording a read of the
\* key's value; duplicates are kept (one entry per read or write), and a
\* write of v to a key holding 0 followed by a read of it records [0, v];
\* accessed_storage_keys is the set of distinct keys the call touched.
C13_ReadValuesInExecutionOrder ==
    /\ storage_read_values = ValuesFound(storage_at_entry, syscalls)
    /\ Len(storage_read_values) = Len(syscalls)
    /\ accessed_storage_keys = {syscalls[i].key : i \in DOMAIN syscalls}
    /\ \A key \in StorageKeys, value \in StorageValues :
         (/\ StorActive
          /\ storage_at_entry[key] = 0
          /\ syscalls = <<[op |-> "storage_write", key |-> key, value |-> value],
                          [op |-> "storage_read", key |-> key, value |-> 0]>>)
            => /\ storage_read_values = <<0, value>>
               /\ accessed_storage_keys = {key}

\* The test's raw read and write: 18 written to key 1234 holding 0, then read.
C13_Witness ==
    /\ StorActive
    /\ storage_at_entry[1234] = 0
    /\ syscalls = <<[op |-> "storage_write", key |-> 1234, value |-> 18],
                    [op |-> "storage_read", key |-> 1234, value |-> 0]>>
    /\ storage_read_values = <<0, 18>>
    /\ Cardinality(accessed_storage_keys) = 1

(***************************************************************************)
(* Execution of a call tree: the claims.                                   *)
(***************************************************************************)

IsHeader(l) == l.line = "Error in the called contract"

\* The blocks of a rendered trace: the runs of lines between blank lines.
RECURSIVE SplitBlocks(_)
SplitBlocks(lines) ==
    IF lines = <<>> THEN <<>>
    ELSE IF \E i \in DOMAIN lines : lines[i] = BlankLine
    THEN LET b == CHOOSE i \in DOMAIN lines :
                    /\ lines[i] = BlankLine
                    /\ \A j \in 1..(i - 1) : lines[j] # BlankLine
         IN <<SubSeq(lines, 1, b - 1)>> \o SplitBlocks(SubSeq(lines, b + 1, Len(lines)))
    ELSE <<lines>>

MessagesOf(block) == {block[j].text : j \in {i \in DOMAIN block : block[i].line = "message"}}

LocationsOf(block) ==
    SelectSeq(block, LAMBDA l : l.line = "Unknown location")

Failed == exec_result.tag = "Err"

\* The trace of the test: three contracts, the failing one last
\* (entry_point_test.rs, expected_trace).
TestTrace ==
    <<Line("Error in the called contract", TEST_CONTRACT_ADDRESS, 0, ""),
      Line("Error at pc", "", 37, ""),
      Line("message", "", 0, "Got an exception while executing a hint."),
      Line("Cairo traceback (most recent call last)", "", 0, ""),
      Line("Unknown location", "", call_location, ""),
      Line("Unknown location", "", entry_point_location, ""),
      BlankLine,
      Line("Error in the called contract", TEST_CONTRACT_ADDRESS_2, 0, ""),
      Line("Error at pc", "", 37, ""),
      Line("message", "", 0, "Got an exception while executing a hint."),
      Line("Cairo traceback (most recent call last)", "", 0, ""),
      Line("Unknown location", "", call_location, ""),
      Line("Unknown location", "", entry_point_location, ""),
      BlankLine,
      Line("Error in the called contract", SECURITY_TEST_CONTRACT_ADDRESS, 0, ""),
      Line("Error at pc", "", 58, ""),
      Line("message", "", 0, "An ASSERT_EQ instruction failed: 1 != 0."),
      Line("Cairo traceback (most recent call last)", "", 0, ""),
      Line("Unknown location", "", 62, "")>>

\* C14: when a chain of k nested calls C1 -> ... -> Ck fails inside Ck, the
\* error the outermost execute returns carries a trace of exactly k blocks
\* separated by blank lines, one per contract of the chain, each headed by
\* that contract's address, C1 first and Ck last; every block but the last
\* reports the error at the calling location with its own traceback, and
\* only the last reports the failing instruction and its message.
C14_OneBlockPerContractOutermostFirst ==
    (Failed /\ origin.inside) =>
        LET blocks == SplitBlocks(exec_result.error.trace)
            k == Len(origin.chain)
        IN /\ Len(blocks) = k
           /\ \A i \in 1..k :
                /\ blocks[i] # <<>>
                /\ IsHeader(blocks[i][1])
                /\ blocks[i][1].address = origin.chain[i]
                /\ \A j \in 2..Len(blocks[i]) : ~IsHeader(blocks[i][j])
                /\ LocationsOf(blocks[i]) # <<>>
                /\ MessagesOf(blocks[i]) =
                       IF i < k THEN {HINT_EXCEPTION} ELSE {ASSERT_EQ_FAILED}

\* The chain of the test has failed and the returned trace is the test's.
C14_Witness ==
    /\ Failed
    /\ origin.inside
    /\ origin.chain = <<TEST_CONTRACT_ADDRESS, TEST_CONTRACT_ADDRESS_2,
                        SECURITY_TEST_CONTRACT_ADDRESS>>
    /\ exec_result.error.trace = TestTrace

\* The addresses of the headers of a trace, in the order they appear.
HeaderAddresses(trace) ==
    LET headers == SelectSeq(trace, IsHeader)
    IN [i \in DOMAIN headers |-> headers[i].address]

\* Blank lines stand exactly between a block and the next header, and the
\* line after a header is the exact location of the failure in that contract.
WellSeparated(trace) ==
    \A j \in DOMAIN trace :
        /\ (IsHeader(trace[j]) /\ j > 1) => trace[j - 1] = BlankLine
        /\ trace[j] = BlankLine => (j + 1 \in DOMAIN trace /\ IsHeader(trace[j + 1]))
        /\ IsHeader(trace[j]) => (j + 1 \in DOMAIN trace /\ trace[j + 1].line = "Error at pc")

\* C15 as stated: in the multi-block traceback of a failure below the
\* outermost call, the header of the most deeply nested contract comes
\* first, contract boundaries are separated by blank lines, and within a
\* block the exact location of the failure comes first.
C15_MostDeeplyNestedHeaderFirst ==
    (Failed /\ Len(origin.chain) >= 2) =>
        /\ HeaderAddresses(exec_result.error.trace)[1]
               = origin.chain[Len(origin.chain)]
        /\ WellSeparated(exec_result.error.trace)

\* C15 as amended: the header of the outermost contract comes first and that
\* of the most deeply nested contract last (the headers follow the chain of
\* calls), contract boundaries are separated by blank lines, and within a
\* block the exact location of the failure comes first.
C15_OutermostHeaderFirst ==
    (Failed /\ Len(origin.chain) >= 2) =>
        /\ HeaderAddresses(exec_result.error.trace) = origin.chain
        /\ WellSeparated(exec_result.error.trace)

\* A failure two contracts deep, in different contracts, has been returned
\* with its two blocks.
C15_Witness ==
    /\ Failed
    /\ origin.chain = <<TEST_CONTRACT_ADDRESS_2, SECURITY_TEST_CONTRACT_ADDRESS>>
    /\ Len(SplitBlocks(exec_result.error.trace)) = 2

IsPrefix(s, t) == Len(s) <= Len(t) /\ SubSeq(t, 1, Len(s)) = s

CompletedIds == {completed[j].id : j \in DOMAIN completed}

CompletionIndex(id) == CHOOSE j \in DOMAIN completed : completed[j].id = id

\* C17: call-stack discipline.  The invocations in progress are exactly the
\* frames of the stack, each suspended one waiting on the next (a chain of
\* ancestors below the single running invocation); an invocation completes
\* only after every invocation it issued has completed; inner calls
\* complete, and are attached to inner_calls, in the order they were issued.
C17_CallStackDiscipline ==
    /\ {call_stack[i].id : i \in DOMAIN call_stack}
           = (1..(next_id - 1)) \ CompletedIds
    /\ \A i \in 1..(Len(call_stack) - 1) :
          /\ raised.tag = "None" =>
                (/\ call_stack[i].issued # <<>>
                 /\ Top(call_stack[i].issued) = call_stack[i + 1].id)
          /\ call_stack[i + 1].id \notin Range(call_stack[i].inner_calls)
    /\ \A i \in DOMAIN call_stack :
          IsPrefix(call_stack[i].inner_calls, call_stack[i].issued)
    /\ \A j \in DOMAIN completed :
          /\ Range(completed[j].issued) \subseteq {completed[i].id : i \in 1..(j - 1)}
          /\ IsPrefix(completed[j].inner_calls, completed[j].issued)
          /\ ~completed[j].failed => completed[j].inner_calls = completed[j].issued
          /\ \A a, b \in DOMAIN completed[j].issued :
                a < b => CompletionIndex(completed[j].issued[a])
                           < CompletionIndex(completed[j].issued[b])

\* The outermost call has returned with two inner calls, the first of which
\* made an inner call of its own.
C17_Witness ==
    /\ exec_result.tag = "Ok"
    /\ \E j, i \in DOMAIN completed :
          /\ completed[j].id = 1
          /\ completed[j].inner_calls = <<2, 4>>
          /\ completed[i].id = 2
          /\ completed[i].inner_calls = <<3>>

(***************************************************************************)
(* Contract classes: the claims.                                           *)
(***************************************************************************)

\* The class declares a constructor: its Constructor bucket has an entry.
DeclaresConstructor ==
    /\ "Constructor" \in DOMAIN contract_class.entry_points_by_type
    /\ contract_class.entry_points_by_type["Constructor"] # <<>>

\* C18: for every class of either variant, constructor_selector() returns
\* the selector of the first entry of the Constructor bucket when the class
\* declares a constructor and none when it declares no constructor; it
\* returns a result, and does not abort, for every class, including one
\* whose entry-point mapping has no Constructor bucket, and the answer does
\* not depend on the variant.
C18_ConstructorSelectorNeverAborts ==
    ctor_result.tag # "NotCalled" =>
        /\ ctor_result.tag # "Panic"
        /\ DeclaresConstructor =>
              ctor_result =
                  SomeSelector(contract_class.entry_points_by_type["Constructor"][1].selector)
        /\ ~DeclaresConstructor => ctor_result = NoSelector

\* With a Constructor bucket in the mapping, the answer is the first entry's
\* selector, or none for an empty bucket, for V0 and V1 alike.
ConstructorSelectorWhenBucketPresent ==
    (/\ ctor_result.tag # "NotCalled"
     /\ "Constructor" \in DOMAIN contract_class.entry_points_by_type)
        => IF DeclaresConstructor
           THEN ctor_result =
                  SomeSelector(contract_class.entry_points_by_type["Constructor"][1].selector)
           ELSE ctor_result = NoSelector

\* The number of entry points of a bucket, none for a type without bucket.
BucketLength(type) ==
    IF type \in DOMAIN contract_class.entry_points_by_type
    THEN Len(contract_class.entry_points_by_type[type]) ELSE 0

\* h of the claim, in exact arithmetic.
HashedDataSize ==
    CAIRO0_ENTRY_POINT_STRUCT_SIZE
        * (BucketLength("Constructor") + BucketLength("External") + BucketLength("L1Handler"))
    + contract_class.n_builtins + contract_class.bytecode_length + 1

\* C19: for every V0 class the estimate has n_steps = N_STEPS_PER_PEDERSEN * h,
\* n_memory_holes = 0 and a builtin counter with exactly one entry, the
\* pedersen builtin with count h, where h = CAIRO0_ENTRY_POINT_STRUCT_SIZE *
\* (entry points summed over all buckets) + builtins + bytecode length + 1.
C19_V0EstimateFormula ==
    estimate.tag # "NotCalled" =>
        /\ estimate.tag = "Returned"
        /\ estimate.n_steps = N_STEPS_PER_PEDERSEN * HashedDataSize
        /\ estimate.n_memory_holes = 0
        /\ DOMAIN estimate.builtin_instance_counter = {PEDERSEN}
        /\ estimate.builtin_instance_counter[PEDERSEN] = HashedDataSize

\* The estimate has been returned for a V0 class with entry points in two
\* buckets, two builtins and five words of bytecode.
C19_Witness ==
    /\ estimate.tag = "Returned"
    /\ BucketLength("Constructor") = 1
    /\ BucketLength("External") = 2
    /\ contract_class.n_builtins = 2
    /\ contract_class.bytecode_length = 5
    /\ estimate.n_steps = 112
    /\ estimate.builtin_instance_counter[PEDERSEN] = 14

BothEstimated ==
    /\ lower_estimate.tag \in {"Returned", "Panic"}
    /\ higher_estimate.tag \in {"Returned", "Panic"}

NeverLower ==
    /\ lower_estimate.tag = "Returned"
    /\ higher_estimate.tag = "Returned"
    /\ lower_estimate.n_steps <= higher_estimate.n_steps
    /\ lower_estimate.builtin_instance_counter[PEDERSEN]
           <= higher_estimate.builtin_instance_counter[PEDERSEN]

\* C20: the V0 estimate is monotonically non-decreasing in each of
\* entry-point count, builtin count and bytecode length with the other two
\* held fixed: of two classes of which the second has more of one count and
\* as much of the other two, the second has no fewer n_steps and no lower
\* count of the hash builtin.
C20_MonotoneInEachCount ==
    BothEstimated => NeverLower

\* Both estimates are there for two classes of which the second has one
\* entry point more: its estimate has CAIRO0_ENTRY_POINT_STRUCT_SIZE more
\* hashes, and N_STEPS_PER_PEDERSEN steps more for each of them.
C20_Witness ==
    /\ BothEstimated
    /\ n_entry_points(higher_class) = n_entry_points(lower_class) + 1
    /\ higher_estimate.builtin_instance_counter[PEDERSEN]
           = lower_estimate.builtin_instance_counter[PEDERSEN]
                 + CAIRO0_ENTRY_POINT_STRUCT_SIZE
    /\ higher_estimate.n_steps
           = lower_estimate.n_steps
                 + N_STEPS_PER_PEDERSEN * CAIRO0_ENTRY_POINT_STRUCT_SIZE

(***************************************************************************)
(* The V1 estimate: the claims.                                            *)
(***************************************************************************)
V1Estimated == contract_class.variant = "V1" /\ estimate.tag = "Returned"

\* C21: for a V1 class of bytecode length L the estimate has
\* n_steps = floor(503 + 5.7 * L), no memory holes, and a builtin counter
\* whose only entry is the poseidon builtin with floor(10.9 + 0.5 * L);
\* the fractions are dropped, never rounded up (0 gives 503 and 10,
\* 1 gives 508 and 11).
C21_V1EstimateIsTruncatedLinearFit ==
    V1Estimated =>
        LET L == contract_class.bytecode_length
        IN /\ estimate.n_steps = (5030 + 57 * L) \div 10
           /\ estimate.n_memory_holes = 0
           /\ DOMAIN estimate.builtin_instance_counter = {POSEIDON}
           /\ estimate.builtin_instance_counter[POSEIDON] = (109 + 5 * L) \div 10
           /\ (L = 0 => /\ estimate.n_steps = 503
                        /\ estimate.builtin_instance_counter[POSEIDON] = 10)
           /\ (L = 1 => /\ estimate.n_steps = 508
                        /\ estimate.builtin_instance_counter[POSEIDON] = 11)

\* A length of 1: 508.7 steps and 11.4 invocations before the cast.
C21_Witness ==
    /\ V1Estimated
    /\ contract_class.bytecode_length = 1
    /\ estimate.n_steps = 508
    /\ estimate.builtin_instance_counter[POSEIDON] = 11

(***************************************************************************)
(* The compact binary form of ResourcesMapping: the claims.                *)
(***************************************************************************)
\* The bytes one (key, value) pair takes.
PairBytes(entry) == string_encode(entry.k) \o u64_encode(entry.v)

RECURSIVE PairOffset(_, _)
PairOffset(m, i) ==
    IF i = 1 THEN 1 ELSE PairOffset(m, i - 1) + Len(PairBytes(m[i - 1]))

\* The bytes are one prefix byte holding the number of entries and then,
\* one after the other in the order of iteration, the bytes of each pair.
PrefixThenPairsInOrder(bytes, m) ==
    /\ Len(bytes) >= 1
    /\ bytes[1] = 4 * Len(m)
    /\ \A i \in DOMAIN m :
          SubSeq(bytes, 1 + PairOffset(m, i),
                 PairOffset(m, i) + Len(PairBytes(m[i]))) = PairBytes(m[i])
    /\ Len(bytes) = IF m = <<>> THEN 1
                    ELSE PairOffset(m, Len(m)) + Len(PairBytes(m[Len(m)]))

\* C22: decoding the compact binary encoding of a ResourcesMapping succeeds
\* and gives the mapping back, with the same keys, values and order of
\* iteration; the encoding is the compact number of entries followed by
\* the (key, value) pairs in the order of iteration.
C22_MappingRoundTripsInOrder ==
    /\ mapping_encoded.tag = "Bytes" =>
          PrefixThenPairsInOrder(mapping_encoded.val, mapping)
    /\ mapping_decoded.tag \in {"Ok", "Err"} =>
          /\ mapping_decoded.tag = "Ok"
          /\ mapping_decoded.val = mapping

\* Three entries whose order of iteration is neither that of the keys nor
\* that of the values.
C22_Witness ==
    /\ mapping_decoded.tag = "Ok"
    /\ Len(mapping) = 3
    /\ mapping[1].k = N_STEPS_RESOURCE /\ mapping[1].v = 5000
    /\ mapping[2].k = GAS_USAGE /\ mapping[2].v = 100
    /\ mapping[3].k = PEDERSEN /\ mapping[3].v = 200
    /\ mapping_decoded.val = mapping

(***************************************************************************)
(* SizedCache: the claims.                                                 *)
(***************************************************************************)
\* The cache_set calls for key among the first n operations.
SetsOf(key, n) ==
    {i \in 1..n : cache_history[i].op = "cache_set" /\ cache_history[i].key = key}

\* What the most recent cache_set for key among the first n operations
\* stored, none when there was no such call.
MostRecentSet(key, n) ==
    IF SetsOf(key, n) = {} THEN NoValue
    ELSE LET last == CHOOSE i \in SetsOf(key, n) : \A j \in SetsOf(key, n) : j <= i
         IN SomeValue(cache_history[last].value)

Returned(i) == [some |-> cache_history[i].some, value |-> cache_history[i].value]

\* C24: after any sequence of operations on a cache made by with_size(n),
\* cache_get(k) returns the value of the most recent cache_set for k, and
\* none only for a key never set: nothing is evicted (the stored keys may
\* be more than n), cache_get leaves the contents alone, and cache_size and
\* cache_hits return 1 and Some(1) whatever happened before.
C24_CacheNeverEvicts ==
    cache_history # <<[op |-> "idle"]>> =>
        /\ \A i \in DOMAIN cache_history :
              /\ cache_history[i].op = "cache_get" =>
                    Returned(i) = MostRecentSet(cache_history[i].key, i - 1)
              /\ cache_history[i].op \in {"cache_size", "cache_hits"} =>
                    Returned(i) = SomeValue(1)
        /\ \A k \in CacheKeys :
              cache_get(sized_cache, k) = MostRecentSet(k, Len(cache_history))
        /\ DOMAIN sized_cache.entries =
              {k \in CacheKeys : SetsOf(k, Len(cache_history)) # {}}

\* A cache made for one entry holds two keys, and the first key, set twice,
\* is read after the second key was stored: it gives its latest value.
C24_Witness ==
    /\ sized_cache.capacity = 1
    /\ Len(cache_history) = 4
    /\ cache_history[1] = Called("cache_set", 1, SomeValue(10))
    /\ cache_history[2] = Called("cache_set", 1, SomeValue(20))
    /\ cache_history[3] = Called("cache_set", 2, SomeValue(10))
    /\ cache_history[4] = Called("cache_get", 1, SomeValue(20))
    /\ Cardinality(DOMAIN sized_cache.entries) > sized_cache.capacity

(***************************************************************************)
(* The construction of a V1 class: the claims.                             *)
(***************************************************************************)
\* The compiled class's list for an entry-point type.
CompiledList(type) ==
    CASE type = "Constructor" -> casm_class.entry_points_by_type.constructor
      [] type = "External"    -> casm_class.entry_points_by_type.external
      [] OTHER                -> casm_class.entry_points_by_type.l1_handler

\* The stored name of a builtin the compiler names.
StoredBuiltinName(builtin) ==
    CASE builtin = "range_check" -> "range_check_builtin"
      [] builtin = "pedersen"    -> "pedersen_builtin"

SameEntryPoint(stored, compiled) ==
    /\ stored.selector = compiled.selector
    /\ stored.offset = compiled.offset
    /\ Len(stored.builtins) = Len(compiled.builtins)
    /\ \A j \in DOMAIN compiled.builtins :
          stored.builtins[j] = StoredBuiltinName(compiled.builtins[j])

\* C25: a V1 class built from a compiled class has a bucket for each of
\* Constructor, External and L1Handler (empty when the compiled class
\* declares none of that type) holding the compiled entry points in their
\* order, with the same selector and offset and every builtin name followed
\* by "_builtin"; so get_entry_point and constructor_selector find their
\* bucket on such a class and return a result for every call.
C25_BuiltClassHasAllBuckets ==
    built.tag = "Ok" =>
        LET buckets == built.class.entry_points_by_type
        IN /\ DOMAIN buckets = EntryPointType
           /\ \A type \in EntryPointType :
                 /\ Len(buckets[type]) = Len(CompiledList(type))
                 /\ \A i \in DOMAIN CompiledList(type) :
                       SameEntryPoint(buckets[type][i], CompiledList(type)[i])
           /\ built_entry_point.tag = "Called" =>
                 built_entry_point.result.tag \in {"Ok", "Err"}
           /\ built_selector.tag \in {"NotCalled", "Some", "None"}

\* A compiled class without constructor and without L1 handler whose two
\* external entry points ask for builtins: both empty buckets are there,
\* a constructor call finds no entry point, constructor_selector gives none.
C25_Witness ==
    /\ built.tag = "Ok"
    /\ casm_class.entry_points_by_type.constructor = <<>>
    /\ casm_class.entry_points_by_type.l1_handler = <<>>
    /\ Len(casm_class.entry_points_by_type.external) = 2
    /\ casm_class.entry_points_by_type.external[1].builtins = <<"pedersen", "range_check">>
    /\ built.class.entry_points_by_type["External"][1].builtins
          = <<"pedersen_builtin", "range_check_builtin">>
    /\ built.class.entry_points_by_type["Constructor"] = <<>>
    /\ built_entry_point.tag = "Called"
    /\ built_entry_point.call.entry_point_type = "Constructor"
    /\ built_entry_point.result.tag = "Err"
    /\ built_entry_point.result.error = "EntryPointNotFound"
    /\ built_selector = NoSelector

(***************************************************************************)
(* The encodings of a contract class: the claims.                          *)
(***************************************************************************)
\* What the code of this crate does between the two codecs of other crates
\* (the program's and the hints'): through either form every bucket comes
\* back under its type with its entries in their order, although the encoder
\* writes the buckets as a sorted map and the decoder reads them as a list
\* of pairs.
BucketsRecovered ==
    /\ class_decoded.tag \in {"Ok", "Err"} =>
          /\ class_decoded.tag = "Ok"
          /\ class_decoded.val.entry_points_by_type = codec_class.entry_points_by_type
    /\ class_from_json.tag \in {"Ok", "Err"} =>
          /\ class_from_json.tag = "Ok"
          /\ class_from_json.val.entry_points_by_type = codec_class.entry_points_by_type

\* The bytes the encoder of the type encoded writes for the class when its
\* maps are iterated in the given orders.
EncodedAs(type, buckets_in, hints_in) ==
    CASE type = "ContractClassV0" -> ContractClassV0Inner_encode(codec_class, buckets_in)
      [] type = "ContractClassV1" ->
            ContractClassV1Inner_encode(codec_class, buckets_in, hints_in)
      [] type = "ContractClass" -> ContractClass_encode(codec_class, buckets_in, hints_in)

\* The bytes do not depend on the order in which the map of the buckets is
\* iterated.
EncodingIgnoresBucketOrder ==
    class_encoded.tag = "Bytes" =>
        \A buckets_in \in Orders(DOMAIN codec_class.entry_points_by_type) :
            EncodedAs(class_encoded.type, buckets_in, hint_order) = class_encoded.val

\* C26: the compact binary encoding of a class is a function of its value:
\* a class equal to the encoded one, whatever the order in which its hash
\* maps are iterated, encodes to the same bytes (V0 and V1).
C26_EncodingIsAFunctionOfTheValue ==
    class_encoded.tag = "Bytes" =>
        \A buckets_in \in Orders(DOMAIN codec_class.entry_points_by_type),
           hints_in \in Orders(DOMAIN codec_class.hints) :
            EncodedAs(class_encoded.type, buckets_in, hints_in) = class_encoded.val

\* The same for the classes whose hint map has at most one entry, V0
\* classes among them.
EncodingIsAFunctionOfTheValueUpToOneHint ==
    (class_encoded.tag = "Bytes" /\ Cardinality(DOMAIN codec_class.hints) <= 1) =>
        \A buckets_in \in Orders(DOMAIN codec_class.entry_points_by_type),
           hints_in \in Orders(DOMAIN codec_class.hints) :
            EncodedAs(class_encoded.type, buckets_in, hints_in) = class_encoded.val

=============================================================================
